---- MODULE Spec2Model ----
(***************************************************************************)
(* A model of the QtBridges Python/QML bridge: the primitive marshaling    *)
(* table (conversion.cpp), the list-model adapter (autoqmlbridgemodel.cpp),*)
(* the data-type inference (helpers.cpp), the mutation-bracket decorators  *)
(* (updateqmldecorators/) and the registration entry points                *)
(* (autoqmlbridge.cpp, pycapsule.cpp).                                     *)
(***************************************************************************)
EXTENDS Integers, Sequences, FiniteSets, TLC

VARIABLES
    conv,       \* one marshaling round trip: input, stage, generic value, result
    cls,        \* the Python class of the backends: data() hint and container
    wrapped,    \* decorator kind -> m_wrapped_func (a function id or "null")
    bound,      \* decorator kind -> m_backend_instance (an object or 0)
    pyobj,      \* Python object -> the state of the backend object (its rows)
    models,     \* adapter id -> AutoQmlBridgeModel / BridgePyTypeObjectModel
    bridgeMap,  \* s_bridgeMap: Python object -> adapter id of its handle's model
    typeModelMap, \* s_typeModelMap: Python object -> adapter id
    call,       \* the last decorator call: primitives issued, result, error
    query,      \* the last adapter query (rowCount / data / roleNames) and result
    reg,        \* register_type (bridge_type): per-type association and last call
    pyerr,      \* the interpreter's error indicator: "none" or the pending exception
    plist       \* the live Python sequence behind the list-valued property

vars == <<conv, cls, wrapped, bound, pyobj, models, bridgeMap, typeModelMap, call,
          query, reg, pyerr, plist>>

(***************************************************************************)
(* Python values.  A str is a sequence of code points, of which "NUL"      *)
(* (U+0000) and "SURR" (a lone surrogate, not encodable as UTF-8) matter   *)
(* to the C-string based conversions.  An int n is kept as hi * 2^31 + lo  *)
(* with 0 <= lo < 2^31, so that values beyond the 32-bit `int` are         *)
(* representable; "hugeint" is an int outside the range of a C long.       *)
(***************************************************************************)
IntMax == 2147483647

PyNone == [t |-> "none"]
PyStr(s) == [t |-> "str", s |-> s]
PyInt(hi, lo) == [t |-> "int", hi |-> hi, lo |-> lo]
PyHugeInt == [t |-> "hugeint"]
PyFloat(d) == [t |-> "float", d |-> d]
PyBool(b) == [t |-> "bool", b |-> b]
PyObj(id) == [t |-> "obj", id |-> id]
PySmall(n) == IF n >= 0 THEN PyInt(0, n) ELSE PyInt(-1, (n + IntMax) + 1)

\* CPython type checks: bool is a subclass of int, so PyLong_Check accepts it.
PyUnicode_Check(o) == o.t = "str"
PyBool_Check(o) == o.t = "bool"
PyLong_Check(o) == o.t \in {"int", "hugeint", "bool"}
PyFloat_Check(o) == o.t = "float"

\* A C long (LP64) as hi * 2^31 + lo; a C int is a TLC integer.
Long(hi, lo) == [hi |-> hi, lo |-> lo]
LongGT(a, b) == a.hi > b.hi \/ (a.hi = b.hi /\ a.lo > b.lo)
LongOfInt(i) == IF i >= 0 THEN Long(0, i) ELSE Long(-1, (i + IntMax) + 1)
FitsInt(l) == (l.hi = 0) \/ (l.hi = -1)
\* static_cast<int>(long): the low 32 bits, two's complement.
NarrowToInt(l) == IF l.hi % 2 = 0 THEN l.lo ELSE (l.lo - IntMax) - 1

\* PyLong_AsLong: the value, or -1 with a Python error set.
PyLong_AsLong(o) ==
    CASE o.t = "int" -> [ok |-> TRUE, val |-> Long(o.hi, o.lo)]
      [] o.t = "bool" -> [ok |-> TRUE, val |-> Long(0, IF o.b THEN 1 ELSE 0)]
      [] o.t = "hugeint" -> [ok |-> FALSE, exc |-> "OverflowError"]
      [] OTHER -> [ok |-> FALSE, exc |-> "TypeError"]

PyLong_FromLong(i) == PySmall(i)

RECURSIVE UntilNul(_)
\* What a consumer of a NUL-terminated C string sees of a byte sequence.
UntilNul(s) ==
    IF s = <<>> \/ Head(s) = "NUL" THEN <<>> ELSE <<Head(s)>> \o UntilNul(Tail(s))

\* Shiboken::String::toCString: the UTF-8 buffer, or NULL when encoding fails.
toCString(o) ==
    IF o.t = "str" /\ \A i \in 1..Len(o.s) : o.s[i] # "SURR"
    THEN [ok |-> TRUE, utf8 |-> o.s]
    ELSE [ok |-> FALSE]

QStringFromUtf8(utf8) == UntilNul(utf8)
fromCString(cstr) == PyStr(UntilNul(cstr))

\* str(o) of an object that is none of the primitives.
PyObject_Str(o) == PyStr(<<"a">>)

(***************************************************************************)
(* Generic values (QVariant) and std::optional<QVariant>.                  *)
(***************************************************************************)
QInvalid == [type |-> "Invalid"]
QString(s) == [type |-> "QString", s |-> s]
QInt(i) == [type |-> "Int", i |-> i]
QDouble(d) == [type |-> "Double", d |-> d]
QBool(b) == [type |-> "Bool", b |-> b]
QPyObjectWrapper(o) == [type |-> "PyObjectWrapper", o |-> o]

nullopt == [has |-> FALSE]
Some(q) == [has |-> TRUE, val |-> q]

pyObject2StringOpt(obj) ==
    IF obj = PyNone THEN nullopt
    ELSE IF PyUnicode_Check(obj) /\ toCString(obj).ok
         THEN Some(QStringFromUtf8(toCString(obj).utf8))
         ELSE nullopt

\* `return {};` in a function returning std::optional<QVariant> yields the
\* empty optional, not an optional holding an invalid QVariant.
pyObject2VariantOpt_None == nullopt

pyObject2VariantOpt(obj) ==
    IF obj = PyNone THEN pyObject2VariantOpt_None
    ELSE IF PyUnicode_Check(obj)
    THEN (IF pyObject2StringOpt(obj).has
          THEN Some(QString(pyObject2StringOpt(obj).val)) ELSE nullopt)
    ELSE IF PyBool_Check(obj) THEN Some(QBool(obj.b))
    ELSE IF PyLong_Check(obj) /\ PyLong_AsLong(obj).ok
    THEN Some(QInt(NarrowToInt(PyLong_AsLong(obj).val)))
    ELSE IF PyFloat_Check(obj) THEN Some(QDouble(obj.d))
    ELSE Some(QPyObjectWrapper(obj))

variant2PyObject(variant) ==
    CASE variant.type = "Invalid" -> PyNone
      [] variant.type = "QString" -> fromCString(variant.s)
      [] variant.type = "Int" -> PyLong_FromLong(variant.i)
      [] variant.type = "Double" -> PyFloat(variant.d)
      [] variant.type = "Bool" -> PyBool(variant.b)
      [] variant.type = "PyObjectWrapper" -> variant.o
      [] OTHER -> PyNone

(***************************************************************************)
(* The Python side: functions that decorators wrap, the backend class and  *)
(* its instances.                                                          *)
(***************************************************************************)
MaxLen == 2       \* longest row list a backend holds

Objs == {"o1", "o2"}
NoObj == "null"
Kinds == {"insert", "remove", "move", "reset", "complete"}
BracketKinds == {"insert", "remove", "move", "reset"}

\* callable: PyCallable_Check; hasCode / varnames: __code__ and
\* co_varnames[0 .. co_argcount); hasGet: the object has a working __get__.
PlainFunc(names) ==
    [callable |-> TRUE, hasCode |-> TRUE, varnames |-> names, hasGet |-> TRUE]
Func(f) ==
    CASE f = "add_item" -> PlainFunc(<<"self", "item">>)
      [] f = "insert_at" -> PlainFunc(<<"self", "index", "item">>)
      [] f = "add_kw" -> PlainFunc(<<"self", "item", "index">>)
      [] f = "remove_at" -> PlainFunc(<<"self", "index">>)
      [] f = "move_row" -> PlainFunc(<<"self", "from_index", "to_index">>)
      [] f = "clear" -> PlainFunc(<<"self">>)
      [] f = "on_complete" -> PlainFunc(<<"self">>)
      [] f = "remove_noget" ->
            [callable |-> TRUE, hasCode |-> TRUE,
             varnames |-> <<"self", "index">>, hasGet |-> FALSE]
      [] f = "move_noget" ->
            [callable |-> TRUE, hasCode |-> TRUE,
             varnames |-> <<"self", "from_index", "to_index">>, hasGet |-> FALSE]
      [] f = "callable_obj" ->
            [callable |-> TRUE, hasCode |-> FALSE, varnames |-> <<>>,
             hasGet |-> FALSE]
      [] f = "remove_kwonly" -> PlainFunc(<<"self">>)
      [] f = "move_kwonly" -> PlainFunc(<<"self", "from_index">>)
      [] f = "move_from_only" -> PlainFunc(<<"self", "from_index">>)
      [] f = "index_first" -> PlainFunc(<<"index">>)
      [] OTHER ->
            [callable |-> FALSE, hasCode |-> FALSE, varnames |-> <<>>,
             hasGet |-> FALSE]
NoFunc == "null"

\* The rows a backend holds: dataclass instances (Item, fields name and age)
\* or strings.
PyRec == [t |-> "rec", cls |-> "Item", name |-> PyStr(<<"a">>), age |-> PySmall(1)]
ItemFields == <<"name", "age">>
\* PyObject_GetAttrString(item, fieldName): the value, if the item has the field.
GetAttr(o, f) ==
    IF o.t = "rec" /\ f = "name" THEN [ok |-> TRUE, val |-> o.name]
    ELSE IF o.t = "rec" /\ f = "age" THEN [ok |-> TRUE, val |-> o.age]
    ELSE [ok |-> FALSE]
isDataClassInstance(o) == o.t = "rec"
DataClassFieldsOf(o) == IF o.t \in {"rec", "rectype"} THEN ItemFields ELSE <<>>

\* Return-type hints of data(): `text` is str(hint) cut into pieces, `args`
\* is hint.__args__[0] when the hint has __args__ ("none" otherwise).
Hint(h) ==
    CASE h = "list[str]" ->
            [present |-> TRUE, text |-> <<"list[", "str", "]">>,
             args |-> [t |-> "type", name |-> "str"]]
      [] h = "list[Item]" ->
            [present |-> TRUE, text |-> <<"list[", "__main__.Item", "]">>,
             args |-> [t |-> "rectype", name |-> "Item"]]
      [] h = "'list[Item]'" ->
            [present |-> TRUE, text |-> <<"list[", "Item", "]">>,
             args |-> [t |-> "none"]]
      [] OTHER -> [present |-> FALSE, text |-> <<>>, args |-> [t |-> "none"]]

\* QByteArray::contains / startsWith on the pieces of str(hint).
Contains(text, w) == \E i \in 1..Len(text) : text[i] = w
isListTypeHint(text) ==
    \/ Contains(text, "list[")
    \/ (Len(text) > 0 /\ text[1] \in {"typing.List", "typing.List[", "List["})

\* The classes the model runs with: whether data() exists, its hint, the
\* container it returns and the kind of element.
ClassCfgs ==
    { [hasData |-> TRUE, hint |-> "list[str]", container |-> "list", elem |-> "prim"],
      [hasData |-> TRUE, hint |-> "none", container |-> "list", elem |-> "prim"],
      [hasData |-> TRUE, hint |-> "none", container |-> "tuple", elem |-> "prim"],
      [hasData |-> TRUE, hint |-> "list[Item]", container |-> "list", elem |-> "rec"],
      [hasData |-> TRUE, hint |-> "'list[Item]'", container |-> "list", elem |-> "rec"],
      [hasData |-> TRUE, hint |-> "none", container |-> "list", elem |-> "rec"],
      [hasData |-> FALSE, hint |-> "none", container |-> "list", elem |-> "prim"],
      [hasData |-> TRUE, hint |-> "none", container |-> "DataFrame", elem |-> "prim"],
      [hasData |-> TRUE, hint |-> "none", container |-> "dict", elem |-> "prim"] }
BaseClassCfg ==
    [hasData |-> TRUE, hint |-> "list[str]", container |-> "list", elem |-> "prim"]

ElemOf(c) == IF c.elem = "rec" THEN PyRec ELSE PyStr(<<"a">>)

\* backend.data(): the container object the class returns for these rows.
DataOf(c, rows) == [kind |-> c.container, items |-> rows]
PyList_Check(d) == d.kind = "list"
PyTuple_Check(d) == d.kind = "tuple"
\* type(data).__name__ == "DataFrame"
IsDataFrame(d) == d.kind = "DataFrame"
\* PySequence_Check(data) && !PyUnicode_Check(data)
PySequence_Check(d) == d.kind \in {"list", "tuple", "deque"}

isDataClassList(d) ==
    /\ PyList_Check(d) \/ PyTuple_Check(d)
    /\ Len(d.items) > 0
    /\ isDataClassInstance(d.items[1])

inferDataType(c, rows) ==
    IF ~c.hasData THEN "Unknown"
    ELSE IF /\ Hint(c.hint).present
            /\ isListTypeHint(Hint(c.hint).text)
            /\ ~Contains(Hint(c.hint).text, "str")
            /\ ~Contains(Hint(c.hint).text, "int")
            /\ ~Contains(Hint(c.hint).text, "float")
    THEN "DataClassList"
    ELSE IF Hint(c.hint).present /\ isListTypeHint(Hint(c.hint).text)
    THEN "List"
    ELSE IF PyList_Check(DataOf(c, rows)) \/ PyTuple_Check(DataOf(c, rows))
    THEN (IF isDataClassList(DataOf(c, rows)) THEN "DataClassList" ELSE "List")
    ELSE IF IsDataFrame(DataOf(c, rows)) THEN "Table"
    ELSE IF PySequence_Check(DataOf(c, rows)) THEN "List"
    ELSE "Unknown"

(***************************************************************************)
(* The model adapter (AutoQmlBridgeModel, BridgePyTypeObjectModel).        *)
(***************************************************************************)
DisplayRole == 0
EditRole == 2
UserRole == 256
RoleOffset == 1000
baseRole == UserRole + RoleOffset

\* The adapters one run creates, in creation order.
ModelOrder == <<"m1", "m2">>
ModelIds == {ModelOrder[i] : i \in 1..Len(ModelOrder)}
NoModelId == "none"
NoModel ==
    [state |-> "none", isType |-> FALSE, backend |-> NoObj, datatype |-> "Unknown",
     fieldNames |-> <<>>, roles |-> <<>>]
\* A destroyed adapter: nothing of it may be used any more.
DeadModel == [NoModel EXCEPT !.state = "dead"]

RowsOf(o) == pyobj[o].rows

\* AutoQmlBridgeModel::getDataClassFieldNames
getDataClassFieldNames(m, c, rows) ==
    IF m.fieldNames # <<>> THEN m.fieldNames
    ELSE IF m.datatype \notin {"DataClassList", "Table"} \/ m.backend = NoObj
    THEN <<>>
    ELSE IF /\ Hint(c.hint).present
            /\ Hint(c.hint).args.t \in {"type", "rectype"}
            /\ DataClassFieldsOf(Hint(c.hint).args) # <<>>
    THEN DataClassFieldsOf(Hint(c.hint).args)
    ELSE IF PyList_Check(DataOf(c, rows)) /\ Len(rows) > 0
    THEN DataClassFieldsOf(rows[1])
    ELSE <<>>

RolesFor(names) ==
    [r \in {baseRole + (i - 1) : i \in 1..Len(names)} |-> names[(r - baseRole) + 1]]

\* AutoQmlBridgeModel::setupDataClassRoles
setupDataClassRoles(m, c, rows) ==
    [m EXCEPT !.fieldNames = getDataClassFieldNames(m, c, rows),
              !.roles = RolesFor(getDataClassFieldNames(m, c, rows))]

\* AutoQmlBridgeModel(backend, metaObject, datatype)
NewInstanceModel(o, dt, c, rows) ==
    LET m0 == [state |-> "live", isType |-> FALSE, backend |-> o, datatype |-> dt,
               fieldNames |-> <<>>, roles |-> <<>>]
    IN IF dt = "DataClassList" THEN setupDataClassRoles(m0, c, rows) ELSE m0

\* BridgePyTypeObjectModel(parent, pythonType) with createPythonInstance()
NewTypeModel(o, c, rows) ==
    [state |-> "live", isType |-> TRUE, backend |-> o,
     datatype |-> inferDataType(c, rows), fieldNames |-> <<>>, roles |-> <<>>]

\* AutoQmlBridgeModel::rowCount
rowCount(m, parentValid, c, rows) ==
    IF parentValid THEN 0
    ELSE IF m.backend = NoObj THEN 0
    ELSE IF m.datatype = "Unknown" /\ m.isType THEN 0
    ELSE IF m.datatype \in {"List", "DataClassList"}
    THEN (IF ~PyList_Check(DataOf(c, rows)) THEN 0 ELSE Len(rows))
    ELSE 0

DisplayOnly == [r \in {DisplayRole} |-> "display"]

\* AutoQmlBridgeModel::roleNames
roleNames(m) ==
    IF m.datatype = "DataClassList" /\ m.roles # <<>> THEN m.roles ELSE DisplayOnly

\* AutoQmlBridgeModel::endReset
endReset_keeping(m, c, rows) == m
endReset(m, c, rows) ==
    IF m.datatype = "DataClassList" /\ m.roles = <<>>
    THEN setupDataClassRoles([m EXCEPT !.fieldNames = <<>>], c, rows)
    ELSE m

\* The primitive conversion of AutoQmlBridgeModel::data (List and field values).
ItemToVariant(item) ==
    IF PyUnicode_Check(item)
    THEN (IF toCString(item).ok THEN QString(QStringFromUtf8(toCString(item).utf8))
          ELSE QInvalid)
    ELSE IF PyLong_Check(item)
    THEN QInt(IF PyLong_AsLong(item).ok THEN NarrowToInt(PyLong_AsLong(item).val)
              ELSE -1)
    ELSE IF PyFloat_Check(item) THEN QDouble(item.d)
    ELSE IF PyBool_Check(item) THEN QBool(item.b)
    ELSE IF item = PyNone THEN QInvalid
    ELSE QString(QStringFromUtf8(toCString(PyObject_Str(item)).utf8))

\* AutoQmlBridgeModel::data for an index of the given row; indexValid is
\* QModelIndex::isValid().
data(m, indexValid, row, role, c, rows) ==
    IF ~indexValid \/ m.backend = NoObj THEN QInvalid
    ELSE IF m.datatype = "Unknown" /\ m.isType THEN QInvalid
    ELSE IF m.datatype = "List"
    THEN (IF role # DisplayRole THEN QInvalid
          ELSE IF ~PyList_Check(DataOf(c, rows)) THEN QInvalid
          ELSE IF row < 0 \/ row >= Len(rows) THEN QInvalid
          ELSE ItemToVariant(rows[row + 1]))
    ELSE IF m.datatype = "DataClassList"
    THEN (IF ~PyList_Check(DataOf(c, rows)) THEN QInvalid
          ELSE IF row < 0 \/ row >= Len(rows) THEN QInvalid
          ELSE IF role \notin DOMAIN m.roles
          THEN (IF role = DisplayRole
                THEN QString(QStringFromUtf8(toCString(PyObject_Str(rows[row + 1])).utf8))
                ELSE QInvalid)
          ELSE IF ~GetAttr(rows[row + 1], m.roles[role]).ok THEN QInvalid
          ELSE ItemToVariant(GetAttr(rows[row + 1], m.roles[role]).val))
    ELSE QInvalid

(***************************************************************************)
(* The bracket decorators (updateqmldecorators/).  A decorator call yields *)
(* the primitives it issued on the adapter, in order, and its result.      *)
(***************************************************************************)
NoKwds == [n \in {} |-> PyNone]
IntMin == (-IntMax) - 1

Raise(exc, msg) == [events |-> <<>>, ret |-> "err", exc |-> exc, msg |-> msg]
Finish(events, out) ==
    [events |-> events, ret |-> IF out = "return" THEN "ok" ELSE "err",
     exc |-> IF out = "return" THEN "none" ELSE "UserError", msg |-> <<>>]

\* validateDecoratorState with messages that do not say which decorator.
validateDecoratorState_anonymous(k) ==
    IF wrapped[k] = NoFunc
    THEN [ok |-> FALSE, exc |-> "ValueError",
          msg |-> <<"decorator was not properly initialized - missing wrapped function">>]
    ELSE IF bound[k] = NoObj
    THEN [ok |-> FALSE, exc |-> "RuntimeError",
          msg |-> <<"decorator has no bound backend instance.">>]
    ELSE [ok |-> TRUE]

\* validateDecoratorState
validateDecoratorState(k) ==
    IF wrapped[k] = NoFunc
    THEN [ok |-> FALSE, exc |-> "ValueError",
          msg |-> <<"@", k, " decorator was not properly initialized - missing wrapped function">>]
    ELSE IF bound[k] = NoObj
    THEN [ok |-> FALSE, exc |-> "RuntimeError",
          msg |-> <<"@", k, " decorator has no bound backend instance. Decorators must be bound to an instance via bridge_instance() or bridge_type().">>]
    ELSE [ok |-> TRUE]

\* initDecoratorCommon
initDecoratorCommon(f) == Func(f).callable

\* getModelForDecorator: the adapter id, or NoModelId
getModelForDecorator(k) ==
    IF bound[k] = NoObj THEN NoModelId
    ELSE IF bridgeMap[bound[k]] # NoModelId THEN bridgeMap[bound[k]]
    ELSE IF typeModelMap[bound[k]] # NoModelId THEN typeModelMap[bound[k]]
    ELSE NoModelId

\* A decorator that goes on to the wrapped method without an adapter.
ModelNotFound_proceeds(k) ==
    [events |-> <<[p |-> "call", recv |-> bound[k], out |-> "return"]>>,
     ret |-> "ok", exc |-> "none", msg |-> <<>>]

ModelNotFound(k) ==
    Raise("RuntimeError",
          <<"@", k, " - Model not found for the bound backend instance. Ensure bridge_instance() or bridge_type() was called.">>)

\* createBoundMethod: wrapped_func.__get__(backend, type(backend))
createBoundMethod(f, backend) ==
    IF backend = NoObj
    THEN [ok |-> FALSE, exc |-> "RuntimeError",
          msg |-> <<"Cannot create bound method: no backend instance available">>]
    ELSE IF ~Func(f).hasGet
    THEN [ok |-> FALSE, exc |-> "AttributeError", msg |-> <<"__get__">>]
    ELSE [ok |-> TRUE, recv |-> backend]

\* The position (from 1) of a name among co_varnames[0 .. co_argcount), or 0.
ArgPos(names, name) ==
    IF \E i \in 1..Len(names) : names[i] = name
    THEN CHOOSE i \in 1..Len(names) :
            names[i] = name /\ \A j \in 1..(i - 1) : names[j] # name
    ELSE 0

\* hasArgumentByName
hasArgumentByName(f, name) == Func(f).hasCode /\ ArgPos(Func(f).varnames, name) > 0

\* extractArgumentByName: the object found, if any.  The receiver is not
\* among the positional arguments, so position p of the wrapped function is
\* args[p - 1].
extractArgumentByName(f, args, kwds, name) ==
    IF ~Func(f).hasCode THEN [found |-> FALSE]
    ELSE IF ArgPos(Func(f).varnames, name) >= 2
            /\ ArgPos(Func(f).varnames, name) - 1 <= Len(args)
    THEN [found |-> TRUE, val |-> args[ArgPos(Func(f).varnames, name) - 1]]
    ELSE IF name \in DOMAIN kwds
    THEN [found |-> TRUE, val |-> kwds[name]]
    ELSE [found |-> FALSE]

RequiredNotFound(name) ==
    Raise("ValueError", <<"Required argument '", name, "' not found">>)

\* tp_init of each decorator kind: whether `f` is accepted as wrapped function.
tp_init(k, f) ==
    /\ initDecoratorCommon(f)
    /\ k = "remove" => hasArgumentByName(f, "index")
    /\ k = "move" => hasArgumentByName(f, "from_index") /\ hasArgumentByName(f, "to_index")

CallEv(recv, out) == [p |-> "call", recv |-> recv, out |-> out]

\* InsertDecoratorPrivate::tp_call
InsertCallBody(m, f, args, kwds, out, index) ==
    Finish(<<[p |-> "startInsert", m |-> m, first |-> index, last |-> index],
             CallEv(bound["insert"], out),
             [p |-> "finishInsert", m |-> m]>>, out)

insert_tp_call(args, kwds, out) ==
    LET k == "insert"
        f == wrapped[k]
        m == getModelForDecorator(k)
        ix == extractArgumentByName(f, args, kwds, "index")
    IN IF ~validateDecoratorState(k).ok
       THEN Raise(validateDecoratorState(k).exc, validateDecoratorState(k).msg)
       ELSE IF m = NoModelId THEN ModelNotFound(k)
       ELSE IF ~createBoundMethod(f, bound[k]).ok
       THEN Raise(createBoundMethod(f, bound[k]).exc, createBoundMethod(f, bound[k]).msg)
       ELSE IF ix.found
       THEN (IF ~PyLong_AsLong(ix.val).ok
             THEN Raise(PyLong_AsLong(ix.val).exc, <<"index">>)
             ELSE InsertCallBody(m, f, args, kwds, out,
                                 NarrowToInt(PyLong_AsLong(ix.val).val)))
       ELSE InsertCallBody(m, f, args, kwds, out,
                           rowCount(models[m], FALSE, cls, RowsOf(models[m].backend)))

\* @remove returning on a failed createBoundMethod without finishRemove.
remove_tp_call_unbindable_open(m, row) ==
    <<[p |-> "startRemove", m |-> m, first |-> row, last |-> row]>>

\* RemoveDecoratorPrivate::tp_call, the primitives issued when the bound
\* method cannot be created.
remove_tp_call_unbindable(m, row) ==
    <<[p |-> "startRemove", m |-> m, first |-> row, last |-> row],
      [p |-> "finishRemove", m |-> m]>>

\* RemoveDecoratorPrivate::tp_call
remove_tp_call(args, kwds, out) ==
    LET k == "remove"
        f == wrapped[k]
        m == getModelForDecorator(k)
        ix == extractArgumentByName(f, args, kwds, "index")
        row == NarrowToInt(PyLong_AsLong(ix.val).val)
        bm == createBoundMethod(f, bound[k])
    IN IF ~validateDecoratorState(k).ok
       THEN Raise(validateDecoratorState(k).exc, validateDecoratorState(k).msg)
       ELSE IF m = NoModelId THEN ModelNotFound(k)
       ELSE IF ~ix.found THEN RequiredNotFound("index")
       ELSE IF ~PyLong_AsLong(ix.val).ok
       THEN Raise(PyLong_AsLong(ix.val).exc, <<"index">>)
       ELSE IF ~bm.ok
       THEN [events |-> remove_tp_call_unbindable(m, row),
             ret |-> "err", exc |-> bm.exc, msg |-> bm.msg]
       ELSE Finish(<<[p |-> "startRemove", m |-> m, first |-> row, last |-> row],
                     CallEv(bound[k], out),
                     [p |-> "finishRemove", m |-> m]>>, out)

\* `int adjustedToIndex = toIndex; if (toIndex > fromIndex) adjustedToIndex++;`
\* Incrementing an int that holds INT_MAX is undefined behaviour: `ub` is
\* the value the build produces then.
UBOutcomes == {IntMin, IntMax}
AdjustedToIndex(fromIndex, toIndex, ub) ==
    IF LongGT(toIndex, fromIndex)
    THEN (IF NarrowToInt(toIndex) = IntMax THEN ub ELSE NarrowToInt(toIndex) + 1)
    ELSE NarrowToInt(toIndex)

\* MoveDecoratorPrivate::tp_call
move_tp_call(args, kwds, out, ub) ==
    LET k == "move"
        f == wrapped[k]
        m == getModelForDecorator(k)
        fo == extractArgumentByName(f, args, kwds, "from_index")
        to == extractArgumentByName(f, args, kwds, "to_index")
        fromIndex == PyLong_AsLong(fo.val)
        toIndex == PyLong_AsLong(to.val)
        start == [p |-> "startMove", m |-> m,
                  first |-> NarrowToInt(fromIndex.val),
                  last |-> NarrowToInt(fromIndex.val),
                  dest |-> AdjustedToIndex(fromIndex.val, toIndex.val, ub)]
        bm == createBoundMethod(f, bound[k])
    IN IF ~validateDecoratorState(k).ok
       THEN Raise(validateDecoratorState(k).exc, validateDecoratorState(k).msg)
       ELSE IF m = NoModelId THEN ModelNotFound(k)
       ELSE IF ~to.found THEN RequiredNotFound("to_index")
       ELSE IF ~fo.found THEN RequiredNotFound("from_index")
       ELSE IF ~toIndex.ok THEN Raise(toIndex.exc, <<"to_index">>)
       ELSE IF ~fromIndex.ok THEN Raise(fromIndex.exc, <<"from_index">>)
       ELSE IF ~bm.ok
       THEN [events |-> <<start, [p |-> "finishMove", m |-> m]>>,
             ret |-> "err", exc |-> bm.exc, msg |-> bm.msg]
       ELSE Finish(<<start, CallEv(bound[k], out), [p |-> "finishMove", m |-> m]>>,
                   out)

\* ResetDecoratorPrivate::tp_call
reset_tp_call(args, kwds, out) ==
    LET k == "reset"
        f == wrapped[k]
        m == getModelForDecorator(k)
        bm == createBoundMethod(f, bound[k])
    IN IF ~validateDecoratorState(k).ok
       THEN Raise(validateDecoratorState(k).exc, validateDecoratorState(k).msg)
       ELSE IF m = NoModelId THEN ModelNotFound(k)
       ELSE IF ~bm.ok THEN Raise(bm.exc, bm.msg)
       ELSE Finish(<<[p |-> "startReset", m |-> m], CallEv(bound[k], out),
                     [p |-> "endReset", m |-> m]>>, out)

\* CompleteDecoratorPrivate::tp_call
complete_tp_call(args, kwds, out) ==
    LET k == "complete"
        f == wrapped[k]
        bm == createBoundMethod(f, bound[k])
    IN IF ~validateDecoratorState(k).ok
       THEN Raise("RuntimeError",
                  <<"@", "complete", " decorator has no bound backend instance - was bridge_instance() or bridge_type() called?">>)
       ELSE IF ~bm.ok
       THEN Raise("RuntimeError",
                  <<"@", "complete", " decorator failed to create bound method">>)
       ELSE Finish(<<CallEv(bound[k], out)>>, out)

(***************************************************************************)
(* Registration: bridge_instance (autoqmlbridge.cpp) and the adapters the  *)
(* UI engine instantiates for a registered type (BridgePyTypeObjectModel). *)
(***************************************************************************)
IdleCall == [kind |-> "idle"]
IdleQuery == [op |-> "idle"]
IdleConv == [stage |-> "idle"]
IdleReg == [op |-> "idle"]
NoErr == "none"

\* The class's decorated methods are named after their kinds; dir(type)
\* lists them in this (sorted) order.
DirOrder == <<"complete", "insert", "move", "remove", "reset">>

Introspectable(k) == wrapped[k] # NoFunc /\ Func(wrapped[k]).hasCode

\* AutoQmlBridgePrivate::registerMethodsFromType in instance mode: every
\* decorator up to and including the first that cannot be introspected is
\* bound to the backend; the loop returns there.
registerMethodsFromType(o) ==
    [k \in Kinds |->
        IF \A j \in 1..Len(DirOrder) :
              (\E i \in 1..Len(DirOrder) : DirOrder[i] = k /\ j < i)
                  => Introspectable(DirOrder[j])
        THEN o ELSE bound[k]]

\* BridgePyTypeObjectModel::bindDecoratorsToBackend
bindDecoratorsToBackend(o) == [k \in Kinds |-> o]

HasFreeModel == \E a \in ModelIds : models[a].state = "none"
FreeModel ==
    ModelOrder[CHOOSE i \in 1..Len(ModelOrder) :
                  /\ models[ModelOrder[i]].state = "none"
                  /\ \A j \in 1..(i - 1) : models[ModelOrder[j]].state # "none"]

Idle == call = IdleCall /\ query = IdleQuery

\* The first method of dir(type) that registerMethodsFromType cannot
\* introspect ("none" when every method can be), and the error it sets.
FirstOpaque ==
    IF \A i \in 1..Len(DirOrder) : Introspectable(DirOrder[i]) THEN "none"
    ELSE DirOrder[CHOOSE i \in 1..Len(DirOrder) :
                     /\ ~Introspectable(DirOrder[i])
                     /\ \A j \in 1..(i - 1) : Introspectable(DirOrder[j])]
IntrospectError(name) ==
    <<"Cannot introspect Python method '", name,
      IF wrapped[name] = NoFunc
      THEN "' (missing wrapped_func attribute in insert/remove/move/edit/reset decorator)"
      ELSE "' (missing __code__ attribute)">>

\* What bridge_instance hands back: the returned object ("NULL" or "None"),
\* the interpreter's error indicator when it returns, whether the meta
\* object was finalized, the adapter registered as QML singleton, and the
\* Instance-mode registry as it was before the call.
InstanceResult(o, ret, exc, msg, finalized, singleton) ==
    [op |-> "bridge_instance", o |-> o, ret |-> ret, exc |-> exc, msg |-> msg,
     finalized |-> finalized, singleton |-> singleton, pre |-> bridgeMap,
     opaque |-> FirstOpaque, dt |-> inferDataType(cls, RowsOf(o))]

\* AutoQmlBridgePrivate::bridge_instance
BridgeInstance(o) ==
    /\ Idle
    /\ HasFreeModel
    /\ query' =
          IF ~cls.hasData
          THEN InstanceResult(o, "NULL", "TypeError",
                   <<"The class wrapped with bridge_instance must have a data() method">>,
                   FALSE, NoModelId)
          ELSE IF inferDataType(cls, RowsOf(o)) = "Unknown"
          THEN InstanceResult(o, "NULL", "TypeError",
                   <<"Could not infer data type from data() method.">>,
                   FALSE, NoModelId)
          ELSE IF FirstOpaque # "none"
          THEN InstanceResult(o, "None", "RuntimeError", IntrospectError(FirstOpaque),
                              TRUE, FreeModel)
          ELSE InstanceResult(o, "None", "none", <<>>, TRUE, FreeModel)
    /\ IF ~cls.hasData \/ inferDataType(cls, RowsOf(o)) = "Unknown"
       THEN UNCHANGED <<models, bound, bridgeMap>>
       ELSE /\ models' =
                 [a \in ModelIds |->
                    IF a = FreeModel
                    THEN NewInstanceModel(o, inferDataType(cls, RowsOf(o)), cls, RowsOf(o))
                    ELSE IF a = bridgeMap[o]
                    THEN DeadModel
                    ELSE models[a]]
            /\ bound' = registerMethodsFromType(o)
            /\ bridgeMap' = [bridgeMap EXCEPT ![o] = FreeModel]
    /\ UNCHANGED <<conv, cls, wrapped, pyerr, plist, pyobj, typeModelMap, call, reg>>

\* createBridgeTypeModel: the UI engine instantiates the registered type;
\* BridgePyTypeObjectModel::createPythonInstance makes the backend object `o`.
QmlCreate(o) ==
    /\ Idle
    /\ HasFreeModel
    /\ bridgeMap[o] = NoModelId /\ typeModelMap[o] = NoModelId
    /\ \A k \in Kinds : bound[k] # o
    /\ models' = [models EXCEPT ![FreeModel] = NewTypeModel(o, cls, RowsOf(o))]
    /\ typeModelMap' = [typeModelMap EXCEPT ![o] = FreeModel]
    /\ bound' = bindDecoratorsToBackend(o)
    /\ UNCHANGED <<conv, cls, wrapped, pyerr, plist, pyobj, bridgeMap, call, query, reg>>

\* BridgePyTypeObjectModel::~BridgePyTypeObjectModel
QmlDestroy(a) ==
    /\ Idle
    /\ models[a].state = "live" /\ models[a].isType
    /\ models' = [models EXCEPT ![a] = DeadModel]
    /\ typeModelMap' = [o \in Objs |-> IF o = models[a].backend THEN NoModelId
                                        ELSE typeModelMap[o]]
    /\ UNCHANGED <<conv, cls, wrapped, pyerr, plist, bound, pyobj, bridgeMap, call, query, reg>>

(***************************************************************************)
(* Calls of the decorated methods and the queries a view makes.            *)
(***************************************************************************)
Item == PyStr(<<"x">>)
Kw(name, v) == [n \in {name} |-> v]
Shape(args, kwds) == [args |-> args, kwds |-> kwds]

\* Index arguments: 0, 1, 2^31, a str; 2^31 - 1 and an int beyond a C long
\* appear among the shapes below.
IdxVals == {PySmall(0), PySmall(1), PyInt(1, 0), PyStr(<<"a">>)}

InsertShapes ==
    {Shape(<<Item>>, NoKwds), Shape(<<PyHugeInt, Item>>, NoKwds)}
        \cup {Shape(<<i, Item>>, NoKwds) : i \in IdxVals}
        \cup {Shape(<<Item>>, Kw("index", i)) : i \in {PySmall(0), PyInt(1, 0)}}
RemoveShapes ==
    {Shape(<<>>, NoKwds), Shape(<<PyHugeInt>>, NoKwds)}
        \cup {Shape(<<i>>, NoKwds) : i \in IdxVals}
        \cup {Shape(<<>>, Kw("index", i)) : i \in {PySmall(0), PyInt(1, 0)}}
MoveShapes ==
    {Shape(<<>>, NoKwds), Shape(<<PySmall(0)>>, NoKwds),
     Shape(<<PySmall(0)>>, Kw("to_index", PySmall(1))),
     Shape(<<PySmall(0), PySmall(1)>>, NoKwds),
     Shape(<<PySmall(1), PySmall(0)>>, NoKwds),
     Shape(<<PySmall(1), PySmall(1)>>, NoKwds),
     Shape(<<PySmall(0), PyInt(0, IntMax)>>, NoKwds),
     Shape(<<PySmall(0), PyInt(1, 0)>>, NoKwds),
     Shape(<<PyInt(1, 0), PyInt(1, 0)>>, NoKwds),
     Shape(<<PySmall(0), PyStr(<<"a">>)>>, NoKwds),
     Shape(<<PyHugeInt, PySmall(0)>>, NoKwds)}
NoArgs == {Shape(<<>>, NoKwds)}

\* What the wrapped method does to the rows of its receiver when it returns.
Effects(k, rows) ==
    CASE k = "insert" -> IF Len(rows) < MaxLen THEN {Append(rows, ElemOf(cls))}
                         ELSE {rows}
      [] k = "remove" -> IF rows # <<>> THEN {Tail(rows)} ELSE {rows}
      [] k = "reset" -> {<<>>, <<ElemOf(cls)>>}
      [] OTHER -> {rows}

Called(r) == \E i \in 1..Len(r.events) : r.events[i].p = "call"

\* One call of the decorator of kind k with result r of its tp_call; the
\* wrapped method, when it ran and returned, left newRows in its receiver.
DecoratorCall(k, shape, r, out, newRows) ==
    LET m == getModelForDecorator(k)
        rowsAfter == [pyobj EXCEPT ![bound[k]].rows = newRows]
    IN /\ Idle
       /\ call' = [kind |-> k, func |-> wrapped[k], args |-> shape.args,
                   kwds |-> shape.kwds, recv |-> bound[k], model |-> m,
                   pre |-> IF m = NoModelId THEN -1
                           ELSE rowCount(models[m], FALSE, cls,
                                         RowsOf(models[m].backend)),
                   events |-> r.events, ret |-> r.ret, exc |-> r.exc,
                   msg |-> r.msg]
       /\ pyobj' = IF Called(r) /\ out = "return" THEN rowsAfter ELSE pyobj
       /\ models' = IF k = "reset" /\ Called(r)
                    THEN [models EXCEPT
                            ![m] = endReset(models[m], cls,
                                            pyobj'[models[m].backend].rows)]
                    ELSE models
       /\ UNCHANGED <<conv, cls, wrapped, pyerr, plist, bound, bridgeMap, typeModelMap, query, reg>>

Outs == {"return", "raise"}
RowsAfter(k) ==
    IF bound[k] = NoObj THEN {<<>>} ELSE Effects(k, RowsOf(bound[k]))

CallInsert ==
    \E shape \in InsertShapes, out \in Outs : \E newRows \in RowsAfter("insert") :
        DecoratorCall("insert", shape, insert_tp_call(shape.args, shape.kwds, out),
                      out, newRows)
CallRemove ==
    \E shape \in RemoveShapes, out \in Outs : \E newRows \in RowsAfter("remove") :
        DecoratorCall("remove", shape, remove_tp_call(shape.args, shape.kwds, out),
                      out, newRows)
CallMove ==
    \E shape \in MoveShapes, out \in Outs, ub \in UBOutcomes :
        \E newRows \in RowsAfter("move") :
            DecoratorCall("move", shape, move_tp_call(shape.args, shape.kwds, out, ub),
                          out, newRows)
CallReset ==
    \E shape \in NoArgs, out \in Outs : \E newRows \in RowsAfter("reset") :
        DecoratorCall("reset", shape, reset_tp_call(shape.args, shape.kwds, out),
                      out, newRows)
CallComplete ==
    \E shape \in NoArgs, out \in Outs : \E newRows \in RowsAfter("complete") :
        DecoratorCall("complete", shape, complete_tp_call(shape.args, shape.kwds, out),
                      out, newRows)

\* A view asks a live adapter for rowCount() of the root and for roleNames().
RowCount(a) ==
    /\ Idle
    /\ models[a].state = "live"
    /\ query' = [op |-> "rowCount", m |-> a,
                 result |-> rowCount(models[a], FALSE, cls, RowsOf(models[a].backend))]
    /\ UNCHANGED <<conv, cls, wrapped, pyerr, plist, bound, pyobj, models, bridgeMap, typeModelMap,
                   call, reg>>
RoleNames(a) ==
    /\ Idle
    /\ models[a].state = "live"
    /\ query' = [op |-> "roleNames", m |-> a, result |-> roleNames(models[a])]
    /\ UNCHANGED <<conv, cls, wrapped, pyerr, plist, bound, pyobj, models, bridgeMap, typeModelMap,
                   call, reg>>

\* The caller takes the result; the next operation starts from a clean slate.
Return ==
    /\ ~Idle
    /\ query.op # "crashed"
    /\ call' = IdleCall
    /\ query' = IdleQuery
    /\ UNCHANGED <<conv, cls, wrapped, pyerr, plist, bound, pyobj, models, bridgeMap, typeModelMap,
                   reg>>

\* The class under test: the stock class with one of the data() variants, or
\* the stock data() with one decorator wrapping something else ("null": a
\* decorator object made without running tp_init).
StockWrapped ==
    [k \in Kinds |->
        CASE k = "insert" -> "insert_at"
          [] k = "remove" -> "remove_at"
          [] k = "move" -> "move_row"
          [] k = "reset" -> "clear"
          [] k = "complete" -> "on_complete"]
Variants(k) ==
    {NoFunc} \cup
    {f \in CASE k = "insert" -> {"add_item", "add_kw", "callable_obj"}
             [] k = "remove" -> {"remove_noget", "add_item"}
             [] k = "move" -> {"move_noget", "remove_at"}
             [] OTHER -> {"callable_obj", "not_callable"} : tp_init(k, f)}
ClassDefs ==
    {[w |-> StockWrapped, c |-> c] : c \in ClassCfgs}
        \cup {[w |-> [StockWrapped EXCEPT ![k] = f], c |-> BaseClassCfg] :
                k \in Kinds, f \in UNION {Variants(kk) : kk \in Kinds}}

Init ==
    /\ \E d \in ClassDefs :
          /\ \A k \in Kinds : d.w[k] \in Variants(k) \cup {StockWrapped[k]}
          /\ wrapped = d.w
          /\ cls = d.c
    /\ pyobj = [o \in Objs |-> [rows |-> IF o = "o1" THEN <<>> ELSE <<ElemOf(cls)>>]]
    /\ bound = [k \in Kinds |-> NoObj]
    /\ models = [a \in ModelIds |-> NoModel]
    /\ bridgeMap = [o \in Objs |-> NoModelId]
    /\ typeModelMap = [o \in Objs |-> NoModelId]
    /\ call = IdleCall
    /\ query = IdleQuery
    /\ pyerr = NoErr
    /\ plist = <<>>
    /\ conv = IdleConv
    /\ reg = IdleReg

Next ==
    \/ \E o \in Objs : BridgeInstance(o)
    \/ \E o \in Objs : QmlCreate(o)
    \/ \E a \in ModelIds : QmlDestroy(a)
    \/ CallInsert
    \/ CallRemove
    \/ CallMove
    \/ CallReset
    \/ CallComplete
    \/ \E a \in ModelIds : RowCount(a)
    \/ \E a \in ModelIds : RoleNames(a)
    \/ Return

Spec == Init /\ [][Next]_vars

(***************************************************************************)
(* Properties of the decorators and the adapter (specification Spec).      *)
(***************************************************************************)
BeginOf(k) ==
    CASE k = "insert" -> "startInsert" [] k = "remove" -> "startRemove"
      [] k = "move" -> "startMove" [] k = "reset" -> "startReset"
      [] OTHER -> "none"
EndOf(k) ==
    CASE k = "insert" -> "finishInsert" [] k = "remove" -> "finishRemove"
      [] k = "move" -> "finishMove" [] k = "reset" -> "endReset"
      [] OTHER -> "none"
Begins == {BeginOf(k) : k \in BracketKinds}
Ends == {EndOf(k) : k \in BracketKinds}
BeginsIn(ev) == {i \in 1..Len(ev) : ev[i].p \in Begins}
EndsIn(ev) == {i \in 1..Len(ev) : ev[i].p \in Ends}
WrappedRan(ev) == \E i \in 1..Len(ev) : ev[i].p = "call"

\* C1: every call of an @insert, @remove, @move or @reset method that invokes
\* the begin primitive of its kind invokes the matching end primitive on the
\* same adapter exactly once before it returns, on every path (the wrapped
\* method returns, raises, or the bound method cannot be created), with the
\* wrapped call in between; no end primitive is invoked without its begin.
C1_BracketBalanced ==
    call.kind \in BracketKinds =>
        LET ev == call.events
        IN /\ Cardinality(BeginsIn(ev)) <= 1
           /\ Cardinality(EndsIn(ev)) = Cardinality(BeginsIn(ev))
           /\ \A i \in BeginsIn(ev) :
                 /\ ev[i].p = BeginOf(call.kind)
                 /\ \E j \in EndsIn(ev) :
                       j > i /\ ev[j].p = EndOf(call.kind) /\ ev[j].m = ev[i].m
           /\ \A e \in EndsIn(ev) : \E i \in BeginsIn(ev) : i < e
           /\ \A c \in 1..Len(ev) :
                 ev[c].p = "call" =>
                     (\E i \in BeginsIn(ev) : i < c) /\ (\E e \in EndsIn(ev) : c < e)

\* A bracket opened by @remove or @move whose bound method could not be
\* created.
C1_Witness ==
    /\ call.kind \in {"remove", "move"}
    /\ call.ret = "err"
    /\ BeginsIn(call.events) # {}
    /\ ~WrappedRan(call.events)

\* C2: a call of a bracket decorator that is bound to a backend found in
\* neither s_bridgeMap nor s_typeModelMap fails with an error; the wrapped
\* method is not invoked and no begin or end primitive is issued.
C2_ModelNotFound ==
    (/\ call.kind \in BracketKinds
     /\ call.func # NoFunc
     /\ call.recv # NoObj
     /\ bridgeMap[call.recv] = NoModelId
     /\ typeModelMap[call.recv] = NoModelId)
        => (call.ret = "err" /\ call.events = <<>>)

C2_Witness ==
    /\ call.kind \in BracketKinds
    /\ call.func # NoFunc
    /\ call.recv # NoObj
    /\ bridgeMap[call.recv] = NoModelId
    /\ typeModelMap[call.recv] = NoModelId
    /\ \E a \in ModelIds : models[a].state = "live"

NamesKind(msg, k) == \E i \in 1..Len(msg) : msg[i] = k

\* C3: a call of a decorator of any kind (@complete included) that is not
\* bound to a backend, or that captured no method, fails with an error whose
\* message names the kind of the decorator; the wrapped method is not
\* invoked and no primitive is issued.
C3_UnboundRejected ==
    (call.kind \in Kinds /\ (call.recv = NoObj \/ call.func = NoFunc))
        => /\ call.ret = "err"
           /\ call.events = <<>>
           /\ NamesKind(call.msg, call.kind)

C3_Witness ==
    /\ call.kind = "complete"
    /\ call.func = NoFunc
    /\ call.recv # NoObj
    /\ call.ret = "err"

LongSucc(l) == IF l.lo = IntMax THEN Long(l.hi + 1, 0) ELSE Long(l.hi, l.lo + 1)
IsInt(v) == v.t = "int"
AsLong(v) == Long(v.hi, v.lo)
Resolvable(c) == c.func # NoFunc /\ c.recv # NoObj /\ c.model # NoModelId

\* C4: for every @move call with integer arguments from_index = f and
\* to_index = t on a resolvable adapter, startMove is invoked with source
\* range [f, f] and destination row t + 1 when t > f, and destination row t
\* when t <= f.
C4_MoveDestination ==
    LET fo == extractArgumentByName(call.func, call.args, call.kwds, "from_index")
        to == extractArgumentByName(call.func, call.args, call.kwds, "to_index")
    IN (/\ call.kind = "move"
        /\ Resolvable(call)
        /\ fo.found /\ IsInt(fo.val)
        /\ to.found /\ IsInt(to.val))
          => /\ call.events # <<>>
             /\ call.events[1].p = "startMove"
             /\ LongOfInt(call.events[1].first) = AsLong(fo.val)
             /\ LongOfInt(call.events[1].last) = AsLong(fo.val)
             /\ LongOfInt(call.events[1].dest) =
                    IF LongGT(AsLong(to.val), AsLong(fo.val))
                    THEN LongSucc(AsLong(to.val)) ELSE AsLong(to.val)

\* C5: for every @insert call on a resolvable adapter: when no `index` can be
\* extracted from the call, startInsert(n, n) is invoked with n the adapter's
\* rowCount() before the wrapped method runs; when an index i is supplied,
\* startInsert(i, i) is invoked.
C5_InsertIndex ==
    LET ix == extractArgumentByName(call.func, call.args, call.kwds, "index")
    IN (/\ call.kind = "insert"
        /\ Resolvable(call)
        /\ Func(call.func).hasGet
        /\ ix.found => IsInt(ix.val))
          => /\ call.events # <<>>
             /\ call.events[1].p = "startInsert"
             /\ call.events[1].first = call.events[1].last
             /\ LongOfInt(call.events[1].first) =
                    IF ix.found THEN AsLong(ix.val) ELSE LongOfInt(call.pre)

\* What @move and @insert announce for indexes the 32-bit rows of the
\* adapter can hold: for f and t within the int range and t below INT_MAX
\* the destination is t + 1 when t > f and t otherwise; an index i within
\* the int range is announced as startInsert(i, i).
MoveDestinationInIntRange ==
    LET fo == extractArgumentByName(call.func, call.args, call.kwds, "from_index")
        to == extractArgumentByName(call.func, call.args, call.kwds, "to_index")
    IN (/\ call.kind = "move"
        /\ Resolvable(call)
        /\ fo.found /\ IsInt(fo.val) /\ FitsInt(AsLong(fo.val))
        /\ to.found /\ IsInt(to.val) /\ FitsInt(AsLong(to.val))
        /\ NarrowToInt(AsLong(to.val)) < IntMax)
          => /\ call.events # <<>>
             /\ call.events[1] =
                    [p |-> "startMove", m |-> call.model,
                     first |-> NarrowToInt(AsLong(fo.val)),
                     last |-> NarrowToInt(AsLong(fo.val)),
                     dest |-> IF NarrowToInt(AsLong(to.val)) > NarrowToInt(AsLong(fo.val))
                              THEN NarrowToInt(AsLong(to.val)) + 1
                              ELSE NarrowToInt(AsLong(to.val))]
InsertIndexInIntRange ==
    LET ix == extractArgumentByName(call.func, call.args, call.kwds, "index")
    IN (/\ call.kind = "insert"
        /\ Resolvable(call)
        /\ Func(call.func).hasGet
        /\ ix.found => (IsInt(ix.val) /\ FitsInt(AsLong(ix.val))))
          => /\ call.events # <<>>
             /\ call.events[1] =
                    [p |-> "startInsert", m |-> call.model,
                     first |-> IF ix.found THEN NarrowToInt(AsLong(ix.val)) ELSE call.pre,
                     last |-> IF ix.found THEN NarrowToInt(AsLong(ix.val)) ELSE call.pre]

BracketClosed(c) == c.kind \in BracketKinds /\ EndsIn(c.events) # {}

\* C6: for an adapter classified PrimitiveList (DataType::List), immediately
\* after an insert, remove, move or reset bracket closes, rowCount() of the
\* root equals the length of the sequence backend.data() returns, for every
\* kind of sequence that leads to the PrimitiveList classification.
C6_RowCountIsLen ==
    (BracketClosed(call) /\ models[call.model].datatype = "List")
        => rowCount(models[call.model], FALSE, cls, RowsOf(models[call.model].backend))
              = Len(DataOf(cls, RowsOf(models[call.model].backend)).items)

\* C7: for an adapter classified RecordList whose record type has N fields,
\* every roleNames() call (before and after a reset bracket, for
\* instance-registered and UI-instantiated adapters) returns a map whose keys
\* are exactly UserRole+1000 .. UserRole+1000+N-1, the same map every time.
C7_RoleNamesStable ==
    (query.op = "roleNames" /\ models[query.m].datatype = "DataClassList")
        => /\ DOMAIN query.result =
                 {baseRole + i : i \in 0..(Len(ItemFields) - 1)}
           /\ query.result = RolesFor(ItemFields)

\* C11: bridge_instance succeeds only for an object that has data() and is
\* classified PrimitiveList (List) or RecordList (DataClassList); for every
\* other object (no data(), classification Unknown or Table) it returns an
\* error, registers no singleton and leaves the Instance-mode registry as it
\* was.
C11_InstanceOnlyLists ==
    (query.op = "bridge_instance"
        /\ ~(cls.hasData /\ query.dt \in {"List", "DataClassList"}))
        => /\ query.ret = "NULL"
           /\ query.exc # "none"
           /\ query.singleton = NoModelId
           /\ bridgeMap = query.pre

\* C12: when a decorated method of the class cannot be introspected (no
\* wrapped function, or no code object), bridge_instance returns an error
\* that names the method, finalizes no meta object, registers nothing with
\* the QML engine and creates no Instance-mode registry entry.
C12_IntrospectionAborts ==
    (query.op = "bridge_instance"
        /\ cls.hasData /\ query.dt # "Unknown"
        /\ query.opaque # "none")
        => /\ query.ret = "NULL"
           /\ query.exc = "RuntimeError"
           /\ NamesKind(query.msg, query.opaque)
           /\ ~query.finalized
           /\ query.singleton = NoModelId
           /\ bridgeMap = query.pre

(***************************************************************************)
(* Specification SpecConv: one value goes through pyObject2VariantOpt and, *)
(* when that yields a generic value, back through variant2PyObject.        *)
(***************************************************************************)
MaxStrLen == 2    \* longest str marshaled
CodePoints == {"a", "b", "NUL", "SURR"}
Strs == UNION {[1..n -> CodePoints] : n \in 0..MaxStrLen}

\* 0, 1, -1, 2^31 - 1, -2^31, 2^31, -2^31 - 1, 2^32 + 5, and an int beyond a
\* C long.
ConvInts ==
    {PySmall(0), PySmall(1), PySmall(-1), PyInt(0, IntMax), PyInt(-1, 0),
     PyInt(1, 0), PyInt(-2, IntMax), PyInt(2, 5), PyHugeInt}
ConvFloats == {PyFloat("0.0"), PyFloat("1.5"), PyFloat("-2.5"), PyFloat("inf")}
ConvInputs ==
    {PyStr(x) : x \in Strs} \cup ConvInts \cup ConvFloats
        \cup {PyBool(TRUE), PyBool(FALSE), PyNone, PyObj("x")}

\* The rest of the program is at rest while a value is marshaled.
RestInit ==
    /\ cls = BaseClassCfg
    /\ wrapped = StockWrapped
    /\ bound = [k \in Kinds |-> NoObj]
    /\ pyobj = [o \in Objs |-> [rows |-> <<>>]]
    /\ models = [a \in ModelIds |-> NoModel]
    /\ bridgeMap = [o \in Objs |-> NoModelId]
    /\ typeModelMap = [o \in Objs |-> NoModelId]
    /\ call = IdleCall
    /\ query = IdleQuery
    /\ pyerr = NoErr
    /\ plist = <<>>

InitConv ==
    /\ RestInit
    /\ reg = IdleReg
    /\ \E v \in ConvInputs : conv = [stage |-> "input", v |-> v]

Forward ==
    /\ conv.stage = "input"
    /\ conv' = [stage |-> "forward", v |-> conv.v, opt |-> pyObject2VariantOpt(conv.v)]
    /\ UNCHANGED <<cls, wrapped, pyerr, plist, bound, pyobj, models, bridgeMap, typeModelMap, call,
                   query, reg>>

Backward ==
    /\ conv.stage = "forward"
    /\ conv.opt.has
    /\ conv' = [stage |-> "back", v |-> conv.v, opt |-> conv.opt,
                back |-> variant2PyObject(conv.opt.val)]
    /\ UNCHANGED <<cls, wrapped, pyerr, plist, bound, pyobj, models, bridgeMap, typeModelMap, call,
                   query, reg>>

NextConv == Forward \/ Backward

SpecConv == InitConv /\ [][NextConv]_vars

\* The primitives of the marshaling table: str, int within 32 bits, float,
\* bool and None.
SupportedPrimitive(v) ==
    \/ v.t \in {"str", "float", "bool", "none"}
    \/ v.t = "int" /\ FitsInt(AsLong(v))

\* C9: for every supported primitive v (str, int within the signed 32-bit
\* range, float, bool, None), pyObject2VariantOpt(v) yields a generic value
\* (not a conversion failure), and variant2PyObject of it is a Python object
\* equal to v and of the same type.
C9_RoundTrip ==
    (conv.stage \in {"forward", "back"} /\ SupportedPrimitive(conv.v))
        => /\ conv.opt.has
           /\ conv.stage = "back" => conv.back = conv.v

(***************************************************************************)
(* Specification SpecData: a view reads cells of a PrimitiveList adapter   *)
(* whose backend list holds values of every kind.                          *)
(***************************************************************************)
DataElems ==
    {PyStr(<<"a">>), PyStr(<<"a", "NUL">>), PyStr(<<"SURR">>), PySmall(1),
     PyInt(1, 0), PyFloat("1.5"), PyBool(TRUE), PyBool(FALSE), PyNone, PyObj("x")}
DataLists == UNION {[1..n -> DataElems] : n \in 0..MaxLen}
DataRoles == {DisplayRole, EditRole, baseRole}

InitData ==
    /\ cls = BaseClassCfg
    /\ wrapped = StockWrapped
    /\ bound = [k \in Kinds |-> "o1"]
    /\ \E L \in DataLists :
          pyobj = [o \in Objs |-> [rows |-> IF o = "o1" THEN L ELSE <<>>]]
    /\ models = [a \in ModelIds |->
                    IF a = ModelOrder[1]
                    THEN NewInstanceModel("o1", inferDataType(cls, RowsOf("o1")), cls,
                                          RowsOf("o1"))
                    ELSE NoModel]
    /\ bridgeMap = [o \in Objs |-> IF o = "o1" THEN ModelOrder[1] ELSE NoModelId]
    /\ typeModelMap = [o \in Objs |-> NoModelId]
    /\ call = IdleCall
    /\ query = IdleQuery
    /\ pyerr = NoErr
    /\ plist = <<>>
    /\ conv = IdleConv
    /\ reg = IdleReg

\* A view asks a live adapter for data(index, role); the index is valid, on
\* the given row, or invalid.
Data(a) ==
    /\ Idle
    /\ models[a].state = "live"
    /\ \E valid \in BOOLEAN, row \in (-1)..MaxLen, role \in DataRoles :
          /\ valid => row >= 0
          /\ query' = [op |-> "data", m |-> a, valid |-> valid, row |-> row,
                       role |-> role,
                       result |-> data(models[a], valid, row, role, cls,
                                       RowsOf(models[a].backend))]
    /\ UNCHANGED <<conv, cls, wrapped, pyerr, plist, bound, pyobj, models, bridgeMap, typeModelMap,
                   call, reg>>

NextData ==
    \/ \E a \in ModelIds : Data(a)
    \/ Return

SpecData == InitData /\ [][NextData]_vars

\* The marshaling the cell table promises for one element.
CellOf(item) ==
    CASE item.t = "str" -> QString(item.s)
      [] item.t = "int" -> QInt(NarrowToInt(AsLong(item)))
      [] item.t = "float" -> QDouble(item.d)
      [] item.t = "bool" -> QBool(item.b)
      [] item.t = "none" -> QInvalid
      [] OTHER -> QString(PyObject_Str(item).s)

\* C8: data(index, role) of a PrimitiveList adapter over the list L is no
\* value when the role is not the display role or the row is outside L, and
\* otherwise L[row] marshaled: str to string, int to integer, float to
\* double, bool to boolean, None to no value, anything else to its str().
C8_PrimitiveCell ==
    (query.op = "data" /\ models[query.m].datatype = "List")
        => LET L == RowsOf(models[query.m].backend)
           IN query.result =
                 IF \/ ~query.valid
                    \/ query.role # DisplayRole
                    \/ query.row < 0 \/ query.row >= Len(L)
                 THEN QInvalid
                 ELSE CellOf(L[query.row + 1])

(***************************************************************************)
(* Specification SpecReg: bridge_type (register_type) on Python types.     *)
(* The handle (AutoQmlBridgePrivate) and the description (QMetaObject) of  *)
(* a type live in capsules stored as attributes of the type itself.        *)
(***************************************************************************)
MaxRegCalls == 4    \* bridge_type calls in one run

\* "Frozen" is a type that rejects attribute assignment.
Types == {"Backend", "Other", "Frozen"}
SetAttrOk(T) == T # "Frozen"
NoHandle == 0

\* QVersionNumber::fromString(version): not null and at least two segments.
Versions == {"1.0", "2.5.1", "1", "x"}
VersionOk(v) == v \in {"1.0", "2.5.1"}

\* pycapsule.cpp: a lookup that ignores the capsule stored in the type.
getAutoQmlBridgePrivateForType_blind(T) == NoHandle

\* pycapsule.cpp: getAutoQmlBridgePrivateForType, looking in the type's own
\* dict only.
getAutoQmlBridgePrivateForType(T) == reg.assoc[T]

\* pycapsule.cpp: storeAutoQmlBridgePrivateForType; when the attribute cannot
\* be set the capsule is released, which deletes the handle.
storeAutoQmlBridgePrivateForType(T, h) ==
    IF SetAttrOk(T) THEN [reg.assoc EXCEPT ![T] = h] ELSE reg.assoc

\* pycapsule.cpp: storeDynamicMetaObjectForType
storeDynamicMetaObjectForType(T, d) ==
    IF SetAttrOk(T) THEN [reg.meta EXCEPT ![T] = d] ELSE reg.meta

RegState(r) == [assoc |-> r.assoc, meta |-> r.meta, qml |-> r.qml, made |-> r.made]

InitReg ==
    /\ RestInit
    /\ conv = IdleConv
    /\ reg = [assoc |-> [T \in Types |-> NoHandle],
              meta |-> [T \in Types |-> NoHandle],
              qml |-> [T \in Types |-> 0],
              made |-> 0, calls |-> 0, last |-> [op |-> "idle"]]

\* AutoQmlBridgePrivate::bridge_type(type, version = v); engineOk is whether
\* registerQmlType obtains a type id from the QML engine.  (For a type that
\* rejected the capsules the description handed to the engine is already
\* freed: whatever the engine answers is covered by engineOk.)
BridgeType(T, v, engineOk) ==
    /\ reg.calls < MaxRegCalls
    /\ LET pre == RegState(reg)
           h == reg.made + 1
           Last(ret, exc) ==
               [op |-> "bridge_type", type |-> T, version |-> v, ret |-> ret,
                exc |-> exc, pre |-> pre]
       IN reg' =
            IF ~VersionOk(v)
            THEN [reg EXCEPT !.calls = @ + 1, !.last = Last("err", "ValueError")]
            ELSE IF getAutoQmlBridgePrivateForType(T) # NoHandle
            THEN [reg EXCEPT !.calls = @ + 1, !.last = Last("ok", "none")]
            ELSE [assoc |-> storeAutoQmlBridgePrivateForType(T, h),
                  meta |-> storeDynamicMetaObjectForType(T, h),
                  qml |-> IF engineOk THEN [reg.qml EXCEPT ![T] = @ + 1] ELSE reg.qml,
                  made |-> h,
                  calls |-> reg.calls + 1,
                  last |-> IF engineOk THEN Last("ok", "none")
                           ELSE Last("err", "RuntimeError")]
    /\ UNCHANGED <<conv, cls, wrapped, pyerr, plist, bound, pyobj, models, bridgeMap, typeModelMap,
                   call, query>>

NextReg == \E T \in Types, v \in Versions, engineOk \in BOOLEAN : BridgeType(T, v, engineOk)

SpecReg == InitReg /\ [][NextReg]_vars

\* The type of the last call had a handle associated with it when the call
\* was made.
AlreadyRegistered == reg.last.op = "bridge_type" /\ reg.last.pre.assoc[reg.last.type] # NoHandle

NoOpSuccess ==
    /\ reg.last.ret = "ok"
    /\ RegState(reg) = reg.last.pre

\* C10 as stated: calling bridge_type again on a type that is already
\* registered returns success, creates no new handle or description, does
\* not register the type with the QML type system again and leaves the
\* handle and description of the type unchanged.
C10_ReRegisterNoOp == AlreadyRegistered => NoOpSuccess

\* C10, amended: calling bridge_type again, with a version string of the
\* form major.minor, on a type that is already registered returns success,
\* creates no new handle or description, does not register the type with
\* the QML type system again and leaves the handle and description of the
\* type unchanged.  (The version string is validated before the type is
\* looked up: with a malformed one the call raises ValueError, still without
\* changing anything.)
C10_ReRegisterValidVersionNoOp ==
    (AlreadyRegistered /\ VersionOk(reg.last.version)) => NoOpSuccess

C10_Witness ==
    /\ AlreadyRegistered
    /\ VersionOk(reg.last.version)
    /\ reg.last.ret = "ok"
    /\ reg.made = 1

\* The last bridge_type call was made on a type without a handle and
\* returned an error.
FailedRegistration ==
    /\ reg.last.op = "bridge_type"
    /\ reg.last.ret = "err"
    /\ reg.last.pre.assoc[reg.last.type] = NoHandle

\* C37: if bridge_type returns an error (invalid version string, or the QML
\* engine rejected the type), the type is left unregistered: no handle or
\* description remains associated with it, and a later bridge_type call on
\* the type performs a full registration (a call that succeeds leaves the
\* type registered with the QML type system) instead of being treated as a
\* duplicate.
C37_ErrorLeavesUnregistered ==
    /\ FailedRegistration =>
          /\ reg.assoc[reg.last.type] = NoHandle
          /\ reg.meta[reg.last.type] = NoHandle
    /\ (reg.last.op = "bridge_type" /\ reg.last.ret = "ok")
          => reg.qml[reg.last.type] >= 1

\* What holds instead: a call refused for its version string changes
\* nothing, so the type is as unregistered as before.
InvalidVersionLeavesUnregistered ==
    (FailedRegistration /\ reg.last.exc = "ValueError") =>
       /\ RegState(reg) = reg.last.pre
       /\ reg.assoc[reg.last.type] = NoHandle

(***************************************************************************)
(* Specification SpecUi: the UI engine calls into a live adapter through   *)
(* qt_metacall (write / read property, invoke method), setData and         *)
(* rowCount.  The interpreter's error indicator persists between calls.    *)
(***************************************************************************)
\* The properties of the backend class by meta-object index: the handler in
\* m_propertyMap (bound), the declared type, the notify signal.  "ghost" is
\* an index without a handler.
PropIds == {"value", "items", "children", "ghost"}
PropTable(id) ==
    CASE id = "value" -> [bound |-> TRUE, typeName |-> "QVariant", hasNotify |-> TRUE]
      [] id = "items" -> [bound |-> TRUE, typeName |-> "QVariantList", hasNotify |-> TRUE]
      [] id = "children" ->
            [bound |-> TRUE, typeName |-> "QQmlListProperty<QObject>", hasNotify |-> TRUE]
      [] OTHER -> [bound |-> FALSE, typeName |-> "", hasNotify |-> FALSE]

\* Values the UI engine passes: a boxed script value (QJSValue) and a
\* QObject* that points to an adapter or to some other QObject.
QJSValue(v) == [type |-> "QJSValue", inner |-> v]
QObjectStar(q) == [type |-> "QObject*", obj |-> q]
ForeignQObject == "qtobject"
\* The PyObject* of a wrapper that holds no object.
PyNull == [t |-> "null"]
canConvertQObject(v) == v.type = "QObject*"
canConvertPyObjectWrapper(v) == v.type = "PyObjectWrapper"

\* convertQVariantQJSValueToQtType, for boxed primitives
convertQVariantQJSValueToQtType(v) == IF v.type = "QJSValue" THEN v.inner ELSE v

\* static_cast<BridgePyTypeObjectModel*>(qobj)->m_backend.  For a QObject
\* that is no adapter the read lies outside the object: it yields null or
\* a wild pointer.
Wild == "wild"
GarbageReads == {NoObj, Wild}
backendThrough(q, ub) == IF q \in ModelIds THEN models[q].backend ELSE ub

\* logPythonException(context): logs; the Stash puts the exception back, the
\* error indicator is as before.
logPythonException(err) == err

\* PyObject_Call* of Python code that would end as `out` ("return", "raise",
\* or "null": NULL without an exception).  With an exception already pending
\* the interpreter reports the call as failed (SystemError).
CallOutcome(out) == IF pyerr # NoErr THEN "raise" ELSE out
CallError(out) == IF pyerr # NoErr THEN "SystemError" ELSE "ValueError"

FsetEv(id, v) == [e |-> "fset", prop |-> id, value |-> v]
NotifyEv(id) == [e |-> "notify", prop |-> id]

\* AutoQmlBridgeModel::emitPropertyChanged
emitPropertyChanged(id) ==
    IF id \notin PropIds \/ ~PropTable(id).hasNotify THEN <<>> ELSE <<NotifyEv(id)>>

\* PySidePropertyPrivate::metaCall(backend, WriteProperty, args) followed by
\* emitPropertyChanged(id), as the three write paths of qt_metacall do.
WriteThrough(id, v, out) ==
    [ret |-> -1, crashed |-> FALSE,
     events |-> <<FsetEv(id, v)>> \o emitPropertyChanged(id),
     err |-> IF CallOutcome(out) = "raise" THEN CallError(out) ELSE pyerr]

\* AutoQmlBridgeModel::qt_metacall, call == WriteProperty
qt_metacall_Write(id, v, out, ub) ==
    IF ~PropTable(id).bound
    THEN [ret |-> -1, crashed |-> FALSE, events |-> <<>>, err |-> pyerr]
    ELSE IF canConvertQObject(v) /\ backendThrough(v.obj, ub) = Wild
    THEN [ret |-> -1, crashed |-> TRUE, events |-> <<>>, err |-> pyerr]
    ELSE IF /\ canConvertQObject(v)
            /\ backendThrough(v.obj, ub) # NoObj
            /\ pyObject2VariantOpt(PyObj(backendThrough(v.obj, ub))).has
    THEN WriteThrough(id, pyObject2VariantOpt(PyObj(backendThrough(v.obj, ub))).val, out)
    ELSE IF convertQVariantQJSValueToQtType(v).type # v.type
    THEN WriteThrough(id, convertQVariantQJSValueToQtType(v), out)
    ELSE WriteThrough(id, v, out)

\* s_typeModelMap.find / s_bridgeMap.find
InTypeModelMap(o) == o \in Objs /\ typeModelMap[o] # NoModelId
InBridgeMap(o) == o \in Objs /\ bridgeMap[o] # NoModelId

\* The adapter of an Instance-mode handle as the UI engine receives it.
ModelRef(a) == [type |-> "AutoQmlBridgeModel*", obj |-> a, ownership |-> "CppOwnership"]

\* convertVariantToModel (lambda of qt_metacall)
convertVariantToModel(v) ==
    IF v.type # "PyObjectWrapper" THEN v
    ELSE IF InBridgeMap(v.o.id) THEN ModelRef(bridgeMap[v.o.id])
    ELSE v

\* The registry lookups of ReadProperty, instance registry first.
resolveRead_instanceFirst(v) ==
    IF InBridgeMap(v.o.id) THEN convertVariantToModel(v)
    ELSE IF InTypeModelMap(v.o.id) THEN QObjectStar(typeModelMap[v.o.id])
    ELSE v

\* The registry lookups of ReadProperty (autoqmlbridgemodel.cpp:529-563)
resolveRead(v) ==
    IF InTypeModelMap(v.o.id) THEN QObjectStar(typeModelMap[v.o.id])
    ELSE IF InBridgeMap(v.o.id) THEN convertVariantToModel(v)
    ELSE v

\* What PySidePropertyPrivate::metaCall(ReadProperty) leaves in the slot for
\* a property typed QVariant: the getter's result as a generic value.
GetterValue(r) ==
    IF r.t = "obj" THEN QPyObjectWrapper(r)
    ELSE IF pyObject2VariantOpt(r).has THEN pyObject2VariantOpt(r).val
    ELSE QInvalid

\* AutoQmlBridgeModel::qt_metacall, call == ReadProperty; `slot` is what the
\* getter left in args[0].
qt_metacall_Read(id, slot) ==
    IF ~PropTable(id).bound THEN [ret |-> -1, slot |-> "unset"]
    ELSE IF PropTable(id).typeName = "QQmlListProperty<QObject>"
    THEN [ret |-> -1, slot |-> "list"]
    ELSE IF PropTable(id).typeName \in {"QVariantList", "QVariantMap"}
    THEN [ret |-> -1, slot |-> slot]
    ELSE IF canConvertPyObjectWrapper(slot)
    THEN [ret |-> -1, slot |-> resolveRead(slot)]
    ELSE [ret |-> -1, slot |-> slot]

\* The methods of the dynamic meta object by index: parameter count and
\* declared return type.
MethodIds == {10, 11}
MethodTable(id) ==
    IF id = 10 THEN [paramCount |-> 1, typeName |-> "QVariant"]
    ELSE [paramCount |-> 0, typeName |-> "void"]

PyCallEv(args) == [e |-> "call", args |-> args]

\* AutoQmlBridgeModel::qt_metacall, call == InvokeMetaMethod.  attr: whether
\* the backend has the method; alloc: whether building an argument object
\* succeeds; out / result: how the Python method ends.
qt_metacall_Invoke(id, args, attr, alloc, out, result) ==
    LET conv1(v) == variant2PyObject(convertQVariantQJSValueToQtType(v)) IN
    IF ~attr
    THEN [ret |-> id, slot |-> "unset", events |-> <<>>,
          err |-> logPythonException("AttributeError")]
    ELSE IF MethodTable(id).paramCount > 0 /\ ~alloc
    THEN [ret |-> id, slot |-> "unset", events |-> <<>>,
          err |-> logPythonException("MemoryError")]
    ELSE IF CallOutcome(out) = "raise"
    THEN [ret |-> id, slot |-> "unset",
          events |-> <<PyCallEv([i \in 1..MethodTable(id).paramCount |-> conv1(args[i])])>>,
          err |-> logPythonException(CallError(out))]
    ELSE IF CallOutcome(out) = "null"
    THEN [ret |-> id, slot |-> "unset",
          events |-> <<PyCallEv([i \in 1..MethodTable(id).paramCount |-> conv1(args[i])])>>,
          err |-> "RuntimeError"]
    ELSE [ret |-> id,
          slot |-> IF MethodTable(id).typeName \in {"void", ""} THEN "unset"
                   ELSE IF ~pyObject2VariantOpt(result).has THEN "unset"
                   ELSE convertVariantToModel(pyObject2VariantOpt(result).val),
          events |-> <<PyCallEv([i \in 1..MethodTable(id).paramCount |-> conv1(args[i])])>>,
          err |-> pyerr]

SetItemEv(row, v) == [e |-> "set_item", row |-> row, value |-> v]
DataChangedEv(row) ==
    [e |-> "dataChanged", first |-> row, last |-> row, roles |-> {DisplayRole, EditRole}]

\* AutoQmlBridgeModel::setData without the role test (any role is written).
setData_roleCheck_any(indexValid, role) == ~indexValid

\* The first test of AutoQmlBridgeModel::setData
setData_roleCheck(indexValid, role) == ~indexValid \/ role # EditRole

\* AutoQmlBridgeModel::setData
setData(m, indexValid, row, value, role, out) ==
    IF setData_roleCheck(indexValid, role)
    THEN [ret |-> FALSE, events |-> <<>>, err |-> pyerr]
    ELSE IF m.backend = NoObj
    THEN [ret |-> FALSE, events |-> <<>>, err |-> pyerr]
    ELSE IF ~canConvertPyObjectWrapper(value)
    THEN [ret |-> FALSE, events |-> <<>>, err |-> "TypeError"]
    ELSE IF value.o = PyNull
    THEN [ret |-> FALSE, events |-> <<>>, err |-> pyerr]
    ELSE IF CallOutcome(out) = "raise"
    THEN [ret |-> FALSE, events |-> <<SetItemEv(row, value.o)>>,
          err |-> logPythonException(CallError(out))]
    ELSE IF CallOutcome(out) = "null"
    THEN [ret |-> FALSE, events |-> <<SetItemEv(row, value.o)>>, err |-> pyerr]
    ELSE [ret |-> TRUE, events |-> <<SetItemEv(row, value.o), DataChangedEv(row)>>,
          err |-> pyerr]

\* Whether AutoQmlBridgeModel::rowCount gets as far as calling backend.data()
rowCountCalls(m, parentValid) ==
    /\ ~parentValid
    /\ m.backend # NoObj
    /\ ~(m.datatype = "Unknown" /\ m.isType)
    /\ m.datatype \in {"List", "DataClassList"}

\* AutoQmlBridgeModel::rowCount with a backend.data() that ends as `out`
rowCountCall(m, parentValid, c, rows, out) ==
    IF ~parentValid /\ m.backend # NoObj /\ m.datatype = "Unknown" /\ m.isType
    THEN [ret |-> 0, err |-> NoErr]
    ELSE IF rowCountCalls(m, parentValid) /\ CallOutcome(out) = "raise"
    THEN [ret |-> 0, err |-> logPythonException(CallError(out))]
    ELSE IF rowCountCalls(m, parentValid) /\ CallOutcome(out) = "null"
    THEN [ret |-> 0, err |-> pyerr]
    ELSE [ret |-> rowCount(m, parentValid, c, rows), err |-> pyerr]

\* The adapters of one run: m1 is the Instance-mode adapter of o1 (when the
\* class can be registered), m2 a UI-instantiated adapter whose backend is
\* o1, o2 or missing (createPythonInstance failed), or no adapter at all.
UiClassCfgs ==
    { BaseClassCfg,
      [hasData |-> TRUE, hint |-> "none", container |-> "tuple", elem |-> "prim"],
      [hasData |-> FALSE, hint |-> "none", container |-> "list", elem |-> "prim"] }
TypeBackends == Objs \cup {NoObj, "absent"}
RowsOfLen(c, n) == [i \in 1..n |-> ElemOf(c)]

UiTypeModel(tb, c, rows) ==
    IF tb = "absent" THEN NoModel
    ELSE IF tb = NoObj
    THEN [NewTypeModel(NoObj, c, rows) EXCEPT !.datatype = "Unknown"]
    ELSE NewTypeModel(tb, c, rows)

InitUi ==
    /\ cls \in UiClassCfgs
    /\ wrapped = StockWrapped
    /\ bound = [k \in Kinds |-> NoObj]
    /\ \E n \in 0..MaxLen : pyobj = [o \in Objs |-> [rows |-> RowsOfLen(cls, n)]]
    /\ \E tb \in TypeBackends :
          /\ models =
                [a \in ModelIds |->
                    IF a = ModelOrder[1]
                    THEN (IF inferDataType(cls, RowsOf("o1")) = "Unknown" THEN NoModel
                          ELSE NewInstanceModel("o1", inferDataType(cls, RowsOf("o1")),
                                                cls, RowsOf("o1")))
                    ELSE UiTypeModel(tb, cls, IF tb \in Objs THEN RowsOf(tb) ELSE <<>>)]
          /\ typeModelMap = [o \in Objs |-> IF o = tb THEN ModelOrder[2] ELSE NoModelId]
    /\ bridgeMap = [o \in Objs |->
                      IF o = "o1" /\ inferDataType(cls, RowsOf("o1")) # "Unknown"
                      THEN ModelOrder[1] ELSE NoModelId]
    /\ call = IdleCall
    /\ query = IdleQuery
    /\ pyerr = NoErr
    /\ plist = <<>>
    /\ conv = IdleConv
    /\ reg = IdleReg

CallOuts == {"return", "raise", "null"}
LiveAdapters == {a \in ModelIds : models[a].state = "live"}
WriteValues ==
    {QInt(1), QString(<<"a">>), QJSValue(QInt(1)), QJSValue(QString(<<"a">>)),
     QObjectStar(ForeignQObject)} \cup {QObjectStar(q) : q \in LiveAdapters}
\* Written properties are typed QVariant (the slot of a write holds a QVariant).
WriteIds == {"value", "ghost"}
GetterResults == {PySmall(1), PyStr(<<"a">>), PyNone, PyObj("o1"), PyObj("o2"), PyObj("x")}
InvokeArgs == {QInt(1), QJSValue(QInt(1)), QString(<<"a">>)}
InvokeResults ==
    {PySmall(1), PyNone, PyStr(<<"SURR">>), PyObj("o1"), PyObj("o2"), PyObj("x")}
SetDataValues ==
    {QPyObjectWrapper(PyObj("x")), QPyObjectWrapper(PyNull), QInt(1), QString(<<"a">>)}

UiWrite(a) ==
    /\ Idle
    /\ models[a].state = "live" /\ models[a].backend # NoObj
    /\ \E id \in WriteIds, v \in WriteValues, out \in Outs, ub \in GarbageReads :
          LET r == qt_metacall_Write(id, v, out, ub) IN
          /\ query' = [op |-> IF r.crashed THEN "crashed" ELSE "write", m |-> a,
                       id |-> id, v |-> v, ret |-> r.ret, events |-> r.events,
                       pre |-> pyerr]
          /\ pyerr' = r.err
    /\ UNCHANGED <<conv, cls, wrapped, plist, bound, pyobj, models, bridgeMap,
                   typeModelMap, call, reg>>

UiRead(a) ==
    /\ Idle
    /\ models[a].state = "live" /\ models[a].backend # NoObj
    /\ \E id \in PropIds, g \in GetterResults :
          LET slot == IF PropTable(id).typeName = "QVariant" THEN GetterValue(g)
                      ELSE [type |-> PropTable(id).typeName]
              r == qt_metacall_Read(id, slot) IN
          query' = [op |-> "read", m |-> a, id |-> id, getter |-> g, ret |-> r.ret,
                    slot |-> r.slot, pre |-> pyerr]
    /\ UNCHANGED <<conv, cls, wrapped, pyerr, plist, bound, pyobj, models, bridgeMap,
                   typeModelMap, call, reg>>

UiInvoke(a) ==
    /\ Idle
    /\ models[a].state = "live" /\ models[a].backend # NoObj
    /\ \E id \in MethodIds, v \in InvokeArgs, attr \in BOOLEAN, alloc \in BOOLEAN,
          out \in CallOuts, result \in InvokeResults :
          LET args == IF MethodTable(id).paramCount = 1 THEN <<v>> ELSE <<>>
              r == qt_metacall_Invoke(id, args, attr, alloc, out, result) IN
          /\ query' = [op |-> "invoke", m |-> a, id |-> id, args |-> args,
                       attr |-> attr, alloc |-> alloc, out |-> CallOutcome(out),
                       result |-> result, ret |-> r.ret, slot |-> r.slot,
                       events |-> r.events, pre |-> pyerr]
          /\ pyerr' = r.err
    /\ UNCHANGED <<conv, cls, wrapped, plist, bound, pyobj, models, bridgeMap,
                   typeModelMap, call, reg>>

UiSetData(a) ==
    /\ Idle
    /\ models[a].state = "live"
    /\ \E valid \in BOOLEAN, row \in 0..1, role \in {DisplayRole, EditRole},
          value \in SetDataValues, out \in CallOuts :
          LET r == setData(models[a], valid, row, value, role, out) IN
          /\ query' = [op |-> "setData", m |-> a, valid |-> valid, row |-> row,
                       role |-> role, value |-> value, out |-> CallOutcome(out),
                       ret |-> r.ret, events |-> r.events, pre |-> pyerr]
          /\ pyerr' = r.err
    /\ UNCHANGED <<conv, cls, wrapped, plist, bound, pyobj, models, bridgeMap,
                   typeModelMap, call, reg>>

UiRowCount(a) ==
    /\ Idle
    /\ models[a].state = "live"
    /\ \E parentValid \in BOOLEAN, out \in CallOuts :
          LET r == rowCountCall(models[a], parentValid, cls,
                                IF models[a].backend = NoObj THEN <<>>
                                ELSE RowsOf(models[a].backend), out) IN
          /\ query' = [op |-> "uiRowCount", m |-> a, parentValid |-> parentValid,
                       out |-> CallOutcome(out), ret |-> r.ret, pre |-> pyerr]
          /\ pyerr' = r.err
    /\ UNCHANGED <<conv, cls, wrapped, plist, bound, pyobj, models, bridgeMap,
                   typeModelMap, call, reg>>

NextUi ==
    \/ \E a \in ModelIds : UiWrite(a)
    \/ \E a \in ModelIds : UiRead(a)
    \/ \E a \in ModelIds : UiInvoke(a)
    \/ \E a \in ModelIds : UiSetData(a)
    \/ \E a \in ModelIds : UiRowCount(a)
    \/ Return

SpecUi == InitUi /\ [][NextUi]_vars

\* The value the setter is to receive for a written value v.
IsTypeAdapterRef(v) ==
    /\ v.type = "QObject*" /\ v.obj \in ModelIds
    /\ models[v.obj].isType /\ models[v.obj].backend # NoObj

\* C13: every WriteProperty on a property index with a bound handler
\* forwards the value to the setter exactly once (a boxed script value as
\* the value it boxes, a Type-mode adapter reference as the adapter's Python
\* object) and then emits the property's change notification exactly once;
\* nothing else happens.
C13_WriteSetsThenNotifies ==
    (query.op \in {"write", "crashed"} /\ PropTable(query.id).bound)
        => /\ query.op = "write"
           /\ Len(query.events) = 2
           /\ query.events[1].e = "fset" /\ query.events[1].prop = query.id
           /\ query.v.type = "QJSValue" => query.events[1].value = query.v.inner
           /\ IsTypeAdapterRef(query.v)
                 => query.events[1].value
                       = QPyObjectWrapper(PyObj(models[query.v.obj].backend))
           /\ query.events[2] = NotifyEv(query.id)

\* What C13 states, for written values that are no QObject reference or that
\* refer to an adapter.
WriteOfValueOrAdapter ==
    (query.op \in {"write", "crashed"} /\ PropTable(query.id).bound
        /\ query.v # QObjectStar(ForeignQObject))
        => /\ query.op = "write"
           /\ Len(query.events) = 2
           /\ query.events[1].e = "fset"
           /\ query.events[2] = NotifyEv(query.id)

\* C14: a ReadProperty of a property typed QVariant whose getter returned a
\* Python object o yields the Type-mode registry's adapter as a QObject
\* reference when o is a key of that registry; otherwise the model of the
\* Instance-mode handle, with C++ ownership, when o is a key of the
\* Instance-mode registry; otherwise the Python-object wrapper of o.
C14_ReadResolvesRegistries ==
    (query.op = "read" /\ PropTable(query.id).typeName = "QVariant"
        /\ query.getter.t = "obj")
        => query.slot =
              IF InTypeModelMap(query.getter.id)
              THEN QObjectStar(typeModelMap[query.getter.id])
              ELSE IF InBridgeMap(query.getter.id)
              THEN ModelRef(bridgeMap[query.getter.id])
              ELSE QPyObjectWrapper(query.getter)

C14_Witness ==
    /\ query.op = "read" /\ PropTable(query.id).typeName = "QVariant"
    /\ query.getter.t = "obj"
    /\ InTypeModelMap(query.getter.id) /\ InBridgeMap(query.getter.id)
    /\ query.slot = QObjectStar(typeModelMap[query.getter.id])

\* The ways an InvokeMetaMethod call fails.
ArgumentFailed(q) == q.attr /\ MethodTable(q.id).paramCount > 0 /\ ~q.alloc
InvokeFailed(q) ==
    \/ ~q.attr
    \/ ArgumentFailed(q)
    \/ q.out # "return"
    \/ MethodTable(q.id).typeName # "void" /\ ~pyObject2VariantOpt(q.result).has

\* C15: an InvokeMetaMethod call in which fetching the method, converting
\* an argument, the Python call or the conversion of the result fails
\* returns the method index it was given, writes nothing into the return
\* slot and leaves no exception behind for the caller; when an argument
\* cannot be built the Python method is not called.
C15_InvokeFailureIsUnhandled ==
    (query.op = "invoke" /\ InvokeFailed(query))
        => /\ query.ret = query.id
           /\ query.slot = "unset"
           /\ query.pre = NoErr => pyerr = NoErr
           /\ ArgumentFailed(query) => query.events = <<>>

\* The part of C15 about the result and the call.
InvokeFailureEchoesIndex ==
    (query.op = "invoke" /\ InvokeFailed(query))
        => /\ query.ret = query.id
           /\ query.slot = "unset"
           /\ ArgumentFailed(query) => query.events = <<>>

\* C16: when rowCount, setData or qt_metacall (InvokeMetaMethod) returns to
\* the UI engine the interpreter's error indicator is clear.
C16_NoPendingError ==
    query.op \in {"uiRowCount", "setData", "invoke"} => pyerr = NoErr

\* C17: setData returns true and emits dataChanged(index, index,
\* {DisplayRole, EditRole}) exactly once, after set_item(row, value), if and
\* only if the index is valid, the role is EditRole, the value holds a
\* Python object and set_item returned without raising; in every other case
\* it returns false and emits nothing, and when the index or the role is
\* refused set_item is not called.
C17_SetDataContract ==
    query.op = "setData"
        => LET accepted ==
                 /\ query.valid /\ query.role = EditRole
                 /\ canConvertPyObjectWrapper(query.value) /\ query.value.o # PyNull
                 /\ models[query.m].backend # NoObj
                 /\ query.out = "return"
           IN /\ query.ret = accepted
              /\ accepted => query.events = <<SetItemEv(query.row, query.value.o),
                                               DataChangedEv(query.row)>>
              /\ ~accepted => \A i \in 1..Len(query.events) :
                                   query.events[i].e # "dataChanged"
              /\ (~query.valid \/ query.role # EditRole) => query.events = <<>>

C17_Witness ==
    /\ query.op = "setData" /\ query.ret
    /\ Len(query.events) = 2 /\ query.events[2].e = "dataChanged"

\* C18: rowCount returns 0, and leaves no exception behind, for a valid
\* (non-root) parent, an adapter without backend, a UI-instantiated adapter
\* classified Unknown and a backend.data() that raises; in every other case
\* a PrimitiveList or RecordList adapter returns the length of what
\* backend.data() returned.
C18_RowCountZeroOrLength ==
    query.op = "uiRowCount"
        => LET m == models[query.m] IN
           IF \/ query.parentValid
              \/ m.backend = NoObj
              \/ m.isType /\ m.datatype = "Unknown"
              \/ rowCountCalls(m, query.parentValid) /\ query.out = "raise"
           THEN /\ query.ret = 0
                /\ query.pre = NoErr => pyerr = NoErr
           ELSE (m.datatype \in {"List", "DataClassList"} /\ query.out = "return")
                   => query.ret = Len(DataOf(cls, RowsOf(m.backend)).items)

\* The part of C18 about the value, for a backend.data() that returns a list.
RowCountOfList ==
    query.op = "uiRowCount"
        => LET m == models[query.m] IN
           IF \/ query.parentValid
              \/ m.backend = NoObj
              \/ m.isType /\ m.datatype = "Unknown"
              \/ rowCountCalls(m, query.parentValid) /\ query.out = "raise"
           THEN query.ret = 0
           ELSE (/\ m.datatype \in {"List", "DataClassList"}
                 /\ query.out = "return"
                 /\ PyList_Check(DataOf(cls, RowsOf(m.backend))))
                   => query.ret = Len(RowsOf(m.backend))

\* ------------------------------------------------------------------
\* Specification SpecList: the callbacks of a list-valued property
\* (qmllistproperty.cpp).  The property is "children" of the class of o2;
\* plist is the Python list its getter returns.
\* ------------------------------------------------------------------

MaxListLen == 3
\* What a Python list may hold: the backends, and "x", an object that no
\* adapter wraps.
ListElems == Objs \cup {"x"}
\* __name__ of the getter: the name of the property, or another name, as
\* in  children = property(get_children).
GetterNames == {"children", "get_children"}
ListClassCfgs ==
    { [hasData |-> TRUE, hint |-> "list[str]", container |-> "list", elem |-> "prim",
       getterName |-> g] : g \in GetterNames }

\* A QAbstractItemModel of the UI engine that is no adapter (a ListModel).
ForeignItemModel == "listmodel"
NoIndex == "-1"

\* QMetaObject::indexOfProperty
indexOfProperty(name) == IF name \in PropIds /\ PropTable(name).bound THEN name ELSE NoIndex

\* PyQmlListProperty::handleReadProperty: the PyQmlListPropertyData behind
\* the QQmlListProperty it hands out (has = FALSE: it hands out nothing).
handleReadProperty(source, name) ==
    IF ~InTypeModelMap(source)
    THEN [has |-> FALSE, owner |-> NoModelId, propertyIndex |-> NoIndex]
    ELSE [has |-> TRUE, owner |-> typeModelMap[source],
          propertyIndex |-> indexOfProperty(name)]

\* PyQmlListProperty::emitListPropertyChanged
emitListPropertyChanged(d) ==
    IF d.owner = NoModelId \/ d.propertyIndex = NoIndex THEN <<>>
    ELSE emitPropertyChanged(d.propertyIndex)

\* qobject_cast<AutoQmlBridgeModel*>(value)->pythonInstance().  The class
\* has no meta-object of its own, the cast tests for QAbstractItemModel: it
\* lets a foreign item model through, and m_backend is then read outside
\* that object.
pythonInstance(value, ub) ==
    IF value \in ModelIds THEN models[value].backend
    ELSE IF value = ForeignItemModel THEN ub
    ELSE NoObj

AppendEv(o) == [e |-> "append", obj |-> o]
ClearEv == [e |-> "clear"]

\* PyQmlListProperty::appendFunction; sq is the outcome of PyList_Append.
appendFunction(d, list, value, sq, ub) ==
    IF value = NoObj \/ pythonInstance(value, ub) = NoObj
    THEN [crashed |-> FALSE, ok |-> FALSE, list |-> list, events |-> <<>>, err |-> pyerr]
    ELSE IF pythonInstance(value, ub) = Wild
    THEN [crashed |-> TRUE, ok |-> FALSE, list |-> list, events |-> <<>>, err |-> pyerr]
    ELSE IF sq # "ok"
    THEN [crashed |-> FALSE, ok |-> FALSE, list |-> list, events |-> <<>>, err |-> NoErr]
    ELSE [crashed |-> FALSE, ok |-> TRUE,
          list |-> Append(list, pythonInstance(value, ub)),
          events |-> <<AppendEv(pythonInstance(value, ub))>> \o emitListPropertyChanged(d),
          err |-> pyerr]

\* PyQmlListProperty::countFunction
countFunction(list) == Len(list)

\* PyQmlListProperty::atFunction; i counts from 0.
atFunction(list, i) ==
    IF i < 0 \/ i >= Len(list) THEN NoModelId
    ELSE IF InTypeModelMap(list[i + 1]) THEN typeModelMap[list[i + 1]]
    ELSE NoModelId

\* PyQmlListProperty::clearFunction; sq is the outcome of PyList_SetSlice.
clearFunction(d, list, sq) ==
    IF sq # "ok"
    THEN [ok |-> FALSE, list |-> list, events |-> <<>>, err |-> NoErr]
    ELSE [ok |-> TRUE, list |-> <<>>,
          events |-> <<ClearEv>> \o emitListPropertyChanged(d), err |-> pyerr]

\* The adapters of one run: m2 wraps o2, the object with the property, in
\* Type mode or in Instance mode; m1 wraps o1 in Instance mode or in Type
\* mode, is a Type-mode adapter whose Python object could not be made, or
\* does not exist.
OwnerKinds == {"type", "instance"}
ValueKinds == {"type", "instance", "typeNoBackend", "absent"}
ListModelOf(k, o) ==
    CASE k = "type" -> NewTypeModel(o, BaseClassCfg, <<>>)
      [] k = "instance" -> NewInstanceModel(o, "List", BaseClassCfg, <<>>)
      [] k = "typeNoBackend" -> UiTypeModel(NoObj, BaseClassCfg, <<>>)
      [] OTHER -> NoModel
InitialLists == {<<>>} \cup {<<e>> : e \in ListElems}

InitList ==
    /\ cls \in ListClassCfgs
    /\ wrapped = StockWrapped
    /\ bound = [k \in Kinds |-> NoObj]
    /\ pyobj = [o \in Objs |-> [rows |-> <<>>]]
    /\ \E ok \in OwnerKinds, vk \in ValueKinds :
          /\ models = [a \in ModelIds |->
                          IF a = ModelOrder[1] THEN ListModelOf(vk, "o1")
                          ELSE ListModelOf(ok, "o2")]
          /\ typeModelMap =
                [o \in Objs |->
                    IF o = "o1" /\ vk = "type" THEN ModelOrder[1]
                    ELSE IF o = "o2" /\ ok = "type" THEN ModelOrder[2]
                    ELSE NoModelId]
          /\ bridgeMap =
                [o \in Objs |->
                    IF o = "o1" /\ vk = "instance" THEN ModelOrder[1]
                    ELSE IF o = "o2" /\ ok = "instance" THEN ModelOrder[2]
                    ELSE NoModelId]
    /\ plist \in InitialLists
    /\ call = IdleCall
    /\ query = IdleQuery
    /\ pyerr = NoErr
    /\ conv = IdleConv
    /\ reg = IdleReg

ListOwner == "o2"
SeqOuts == {"ok", "fail"}
AppendValues == {NoObj, ForeignQObject, ForeignItemModel} \cup LiveAdapters

ListAppend ==
    /\ Idle
    /\ handleReadProperty(ListOwner, cls.getterName).has
    /\ Len(plist) < MaxListLen
    /\ \E value \in AppendValues, sq \in SeqOuts, ub \in GarbageReads :
          LET r == appendFunction(handleReadProperty(ListOwner, cls.getterName),
                                  plist, value, sq, ub) IN
          /\ query' = [op |-> IF r.crashed THEN "crashed" ELSE "append", value |-> value,
                       ok |-> r.ok, events |-> r.events, before |-> plist, pre |-> pyerr]
          /\ plist' = r.list
          /\ pyerr' = r.err
    /\ UNCHANGED <<conv, cls, wrapped, bound, pyobj, models, bridgeMap, typeModelMap,
                   call, reg>>

ListClear ==
    /\ Idle
    /\ handleReadProperty(ListOwner, cls.getterName).has
    /\ \E sq \in SeqOuts :
          LET r == clearFunction(handleReadProperty(ListOwner, cls.getterName), plist, sq) IN
          /\ query' = [op |-> "clear", ok |-> r.ok, events |-> r.events,
                       before |-> plist, pre |-> pyerr]
          /\ plist' = r.list
          /\ pyerr' = r.err
    /\ UNCHANGED <<conv, cls, wrapped, bound, pyobj, models, bridgeMap, typeModelMap,
                   call, reg>>

ListCount ==
    /\ Idle
    /\ handleReadProperty(ListOwner, cls.getterName).has
    /\ query' = [op |-> "count", ret |-> countFunction(plist)]
    /\ UNCHANGED <<conv, cls, wrapped, pyerr, plist, bound, pyobj, models, bridgeMap,
                   typeModelMap, call, reg>>

ListAt ==
    /\ Idle
    /\ handleReadProperty(ListOwner, cls.getterName).has
    /\ \E i \in -1..MaxListLen :
          query' = [op |-> "at", i |-> i, ret |-> atFunction(plist, i)]
    /\ UNCHANGED <<conv, cls, wrapped, pyerr, plist, bound, pyobj, models, bridgeMap,
                   typeModelMap, call, reg>>

NextList ==
    \/ ListAppend
    \/ ListClear
    \/ ListCount
    \/ ListAt
    \/ Return

SpecList == InitList /\ [][NextList]_vars

\* C19: a successful append leaves the list as it was with the value's
\* Python object added at the end and then emits the change notification
\* of the property once; a successful clear leaves the list empty and then
\* emits it once; an append or clear that fails leaves the list as it was
\* and emits nothing.
C19_AppendClearNotify ==
    /\ query.op # "crashed"
    /\ (query.op = "append" /\ query.ok)
          => /\ query.value \in ModelIds
             /\ plist = Append(query.before, models[query.value].backend)
             /\ query.events = <<AppendEv(models[query.value].backend), NotifyEv("children")>>
    /\ (query.op = "clear" /\ query.ok)
          => /\ plist = <<>>
             /\ query.events = <<ClearEv, NotifyEv("children")>>
    /\ (query.op \in {"append", "clear"} /\ ~query.ok)
          => /\ plist = query.before
             /\ query.events = <<>>

\* What C19 states about the list, and about the notification when the
\* getter carries the name of the property.
ListStepOfNamedGetter ==
    /\ (query.op = "append" /\ query.ok)
          => /\ query.value \in ModelIds
             /\ plist = Append(query.before, models[query.value].backend)
             /\ query.events[1] = AppendEv(models[query.value].backend)
             /\ cls.getterName = "children" => query.events[2] = NotifyEv("children")
    /\ (query.op = "clear" /\ query.ok)
          => /\ plist = <<>>
             /\ query.events[1] = ClearEv
             /\ cls.getterName = "children" => query.events[2] = NotifyEv("children")
    /\ (query.op \in {"append", "clear"})
          => /\ Len(query.events) <= 2
             /\ ~query.ok => (plist = query.before /\ query.events = <<>>)
    /\ query.op = "crashed" => query.value = ForeignItemModel

\* C20: after a successful append(x) count() is one more than before and
\* at(count() - 1) returns x; at(i) returns no object for i outside
\* [0, count()) and for an element whose adapter is not in the Type-mode
\* registry; a value whose adapter is not in the Type-mode registry is not
\* appended.
C20_AppendCountAt ==
    /\ (query.op = "append" /\ query.ok)
          => /\ countFunction(plist) = countFunction(query.before) + 1
             /\ atFunction(plist, countFunction(plist) - 1) = query.value
             /\ InTypeModelMap(models[query.value].backend)
    /\ query.op = "at"
          => ((\/ query.i < 0
               \/ query.i >= countFunction(plist)
               \/ ~InTypeModelMap(plist[query.i + 1])) => query.ret = NoModelId)

\* What C20 states about count() and at(), for every appended value and
\* every element; and the round trip for a value in the Type-mode registry.
CountAndAtOfList ==
    /\ (query.op = "append" /\ query.ok)
          => /\ countFunction(plist) = countFunction(query.before) + 1
             /\ models[query.value].isType
                   => atFunction(plist, countFunction(plist) - 1) = query.value
    /\ query.op = "at"
          => IF query.i < 0 \/ query.i >= countFunction(plist)
             THEN query.ret = NoModelId
             ELSE IF InTypeModelMap(plist[query.i + 1])
             THEN query.ret = typeModelMap[plist[query.i + 1]]
             ELSE query.ret = NoModelId
    /\ query.op = "count" => query.ret = Len(plist)

\* ------------------------------------------------------------------
\* Specification SpecLife: the life of the adapters of one registered
\* type: instantiation by the UI engine, componentComplete, method
\* invocation, destruction.
\* ------------------------------------------------------------------

\* What calling the type yields: an object made for the call ("fresh"), or
\* the one object a class with a caching __new__ hands out every time.
CtorKinds == {"fresh", "shared"}
LifeClassCfgs ==
    { [hasData |-> TRUE, hint |-> "list[str]", container |-> "list", elem |-> "prim",
       ctor |-> c] : c \in CtorKinds }
SharedObj == "o1"

\* An object is in use while an adapter, a registry or a decorator refers to it.
InUse(o) ==
    \/ \E a \in ModelIds : models[a].state = "live" /\ models[a].backend = o
    \/ typeModelMap[o] # NoModelId
    \/ bridgeMap[o] # NoModelId
    \/ \E k \in Kinds : bound[k] = o

\* PyObject_CallObject(m_pythonType, nullptr): NoObj when the call raises.
CtorResults ==
    {NoObj} \cup (IF cls.ctor = "shared" THEN {SharedObj} ELSE {o \in Objs : ~InUse(o)})

\* The description bridge_type finalized for the type: its properties (the
\* position is the property index) and its methods.  reg holds it together
\* with the properties the class has now and m_propertyMap of each adapter.
FinalDescription ==
    [props |-> <<"children", "items", "value">>,
     methods |-> <<"clear", "insert_at", "move_row", "on_complete", "remove_at">>]
\* Properties Python code may give the class after it was registered.
LateProps == {"extra"}
NoPropertyMap == {}

\* associateExistingProperty: the handler goes under the index of the
\* property of that name in the meta-object, if there is one.
associateExistingProperty_firstSlot(d, propName) ==
    [d |-> d, at |-> {<<1, propName>>}]
associateExistingProperty(d, propName) ==
    [d |-> d,
     at |-> {<<i, propName>> : i \in {j \in 1..Len(d.props) : d.props[j] = propName}}]

\* BridgePyTypeObjectModel::discoverAndRegisterProperties: every property
\* of the meta-object that is a property of the class now is associated.
RECURSIVE discoverAndRegisterProperties(_, _, _)
discoverAndRegisterProperties(d, classProps, i) ==
    IF i > Len(d.props) THEN [d |-> d, map |-> NoPropertyMap]
    ELSE LET one == IF d.props[i] \in classProps
                    THEN associateExistingProperty(d, d.props[i])
                    ELSE [d |-> d, at |-> NoPropertyMap]
             rest == discoverAndRegisterProperties(one.d, classProps, i + 1)
         IN [d |-> rest.d, map |-> one.at \cup rest.map]

\* BridgePyTypeObjectModel::createPythonInstance, on the tables
createPythonInstance(a, instance) ==
    IF instance = NoObj
    THEN [model |-> UiTypeModel(NoObj, cls, <<>>), map |-> typeModelMap, bound |-> bound,
          err |-> logPythonException("raised"),
          description |-> reg.description, propertyMap |-> NoPropertyMap]
    ELSE [model |-> NewTypeModel(instance, cls, RowsOf(instance)),
          map |-> [typeModelMap EXCEPT ![instance] = a],
          bound |-> bindDecoratorsToBackend(instance),
          err |-> pyerr,
          description |-> discoverAndRegisterProperties(reg.description, reg.classProps, 1).d,
          propertyMap |->
              discoverAndRegisterProperties(reg.description, reg.classProps, 1).map]

\* ~BridgePyTypeObjectModel, on the Type-mode registry
eraseFromTypeModelMap(a) ==
    [o \in Objs |-> IF o = models[a].backend THEN NoModelId ELSE typeModelMap[o]]

\* References on a backend held by the bridge, by holder: the handle
\* (AutoQmlBridgePrivate::m_backend), the adapters (AutoQmlBridgeModel::
\* m_backend) and the decorators (m_backend_instance).
NoRefs == [handle |-> 0, adapter |-> 0, decorator |-> 0]
Py_INCREF(po, o, holder) ==
    IF o = NoObj THEN po ELSE [po EXCEPT ![o].refs[holder] = @ + 1]
Py_DECREF(po, o, holder) ==
    IF o = NoObj THEN po ELSE [po EXCEPT ![o].refs[holder] = @ - 1]

\* UpdateQMLDecoratorPrivate::setBackendInstance, for the decorators
\* DirOrder[i..] in turn: each takes a reference on its new backend and
\* drops the one on its old backend.
RECURSIVE setBackendInstance(_, _, _)
setBackendInstance(po, newBound, i) ==
    IF i > Len(DirOrder) THEN po
    ELSE setBackendInstance(
             Py_DECREF(Py_INCREF(po, newBound[DirOrder[i]], "decorator"),
                       bound[DirOrder[i]], "decorator"),
             newBound, i + 1)

InitLife ==
    /\ cls \in LifeClassCfgs
    /\ wrapped = StockWrapped
    /\ pyobj = [o \in Objs |->
                  [rows |-> IF o = "o1" THEN <<>> ELSE <<ElemOf(cls)>>, refs |-> NoRefs]]
    /\ bound = [k \in Kinds |-> NoObj]
    /\ models = [a \in ModelIds |-> NoModel]
    /\ bridgeMap = [o \in Objs |-> NoModelId]
    /\ typeModelMap = [o \in Objs |-> NoModelId]
    /\ call = IdleCall
    /\ query = IdleQuery
    /\ pyerr = NoErr
    /\ plist = <<>>
    /\ conv = IdleConv
    /\ reg = [op |-> "type", description |-> FinalDescription,
              classProps |-> {FinalDescription.props[i] :
                                 i \in 1..Len(FinalDescription.props)},
              propertyMap |-> [a \in ModelIds |-> NoPropertyMap]]

\* The UI engine instantiates the type: BridgePyTypeObjectModel(parent, type).
\* The adapter owns the reference that calling the type returned.
LifeCreate(a) ==
    /\ Idle
    /\ models[a].state # "live"
    /\ \E instance \in CtorResults :
          LET r == createPythonInstance(a, instance) IN
          /\ models' = [models EXCEPT ![a] = r.model]
          /\ typeModelMap' = r.map
          /\ bound' = r.bound
          /\ pyerr' = r.err
          /\ pyobj' = setBackendInstance(Py_INCREF(pyobj, instance, "adapter"), r.bound, 1)
          /\ reg' = [reg EXCEPT !.description = r.description,
                                  !.propertyMap[a] = r.propertyMap]
          /\ query' = [op |-> "create", m |-> a, instance |-> instance,
                       before |-> reg.description]
    /\ UNCHANGED <<conv, cls, wrapped, plist, bridgeMap, call>>

\* The UI engine deletes the adapter: ~BridgePyTypeObjectModel, then
\* ~AutoQmlBridgeModel.
LifeDestroy(a) ==
    /\ Idle
    /\ models[a].state = "live" /\ models[a].isType
    /\ models' = [models EXCEPT ![a] = DeadModel]
    /\ typeModelMap' = IF models[a].backend = NoObj THEN typeModelMap
                       ELSE eraseFromTypeModelMap(a)
    /\ pyobj' = Py_DECREF(pyobj, models[a].backend, "adapter")
    /\ reg' = [reg EXCEPT !.propertyMap[a] = NoPropertyMap]
    /\ query' = [op |-> "destroy", m |-> a, backend |-> models[a].backend]
    /\ UNCHANGED <<conv, cls, wrapped, pyerr, plist, bound, bridgeMap, call>>

\* bridge_instance(o) of an object of the class (which has a hinted data()
\* and methods that can all be introspected): the new handle and its
\* adapter each take a reference, the decorators are bound to o, and the
\* handle stored for o before, if any, is destroyed with its adapter.
LifeRegister(o, a) ==
    /\ Idle
    /\ models[a].state # "live"
    /\ typeModelMap[o] = NoModelId
    /\ \A b \in ModelIds : models[b].state = "live" /\ models[b].isType
                              => models[b].backend # o
    /\ models' = [b \in ModelIds |->
                    IF b = a
                    THEN NewInstanceModel(o, inferDataType(cls, RowsOf(o)), cls, RowsOf(o))
                    ELSE IF b = bridgeMap[o] THEN DeadModel
                    ELSE models[b]]
    /\ bound' = registerMethodsFromType(o)
    /\ bridgeMap' = [bridgeMap EXCEPT ![o] = a]
    /\ pyobj' =
          LET taken == setBackendInstance(
                           Py_INCREF(Py_INCREF(pyobj, o, "handle"), o, "adapter"),
                           registerMethodsFromType(o), 1)
          IN IF bridgeMap[o] = NoModelId THEN taken
             ELSE Py_DECREF(Py_DECREF(taken, o, "handle"), o, "adapter")
    /\ reg' = [reg EXCEPT !.propertyMap[a] = NoPropertyMap]
    /\ query' = [op |-> "register", o |-> o, m |-> a]
    /\ UNCHANGED <<conv, cls, wrapped, pyerr, plist, typeModelMap, call>>

\* cleanupModule: s_bridgeMap.clear() destroys every handle, each handle
\* its adapter.
LifeCleanup ==
    /\ Idle
    /\ \E o \in Objs : bridgeMap[o] # NoModelId
    /\ models' = [b \in ModelIds |->
                    IF \E o \in Objs : bridgeMap[o] = b THEN DeadModel ELSE models[b]]
    /\ bridgeMap' = [o \in Objs |-> NoModelId]
    /\ pyobj' = [o \in Objs |->
                   IF bridgeMap[o] = NoModelId THEN pyobj[o]
                   ELSE [pyobj[o] EXCEPT !.refs.handle = @ - 1, !.refs.adapter = @ - 1]]
    /\ query' = [op |-> "cleanup"]
    /\ UNCHANGED <<conv, cls, wrapped, pyerr, plist, bound, typeModelMap, call, reg>>

\* The arguments the UI engine passes when it invokes the method of kind k.
InvokeShape(k) ==
    CASE k = "insert" -> Shape(<<Item>>, NoKwds)
      [] k = "remove" -> Shape(<<PySmall(0)>>, NoKwds)
      [] k = "move" -> Shape(<<PySmall(0), PySmall(1)>>, NoKwds)
      [] OTHER -> Shape(<<>>, NoKwds)
\* PyObject_GetAttr(m_backend, name) yields the decorator object of the
\* class; PyObject_CallObject runs its tp_call.
decorator_tp_call(k, out, ub) ==
    CASE k = "insert" -> insert_tp_call(InvokeShape(k).args, InvokeShape(k).kwds, out)
      [] k = "remove" -> remove_tp_call(InvokeShape(k).args, InvokeShape(k).kwds, out)
      [] k = "move" -> move_tp_call(InvokeShape(k).args, InvokeShape(k).kwds, out, ub)
      [] k = "reset" -> reset_tp_call(InvokeShape(k).args, InvokeShape(k).kwds, out)
      [] OTHER -> complete_tp_call(InvokeShape(k).args, InvokeShape(k).kwds, out)

\* AutoQmlBridgeModel::qt_metacall(InvokeMetaMethod) on adapter a for the
\* decorated method of kind k.
LifeInvoke(a, k) ==
    /\ Idle
    /\ models[a].state = "live" /\ models[a].backend # NoObj
    /\ \E out \in Outs, ub \in UBOutcomes : \E newRows \in RowsAfter(k) :
          LET r == decorator_tp_call(k, CallOutcome(out), ub)
              m == getModelForDecorator(k)
          IN /\ call' = [kind |-> k, via |-> a, recv |-> bound[k], model |-> m,
                         events |-> r.events, ret |-> r.ret, exc |-> r.exc]
             /\ pyobj' = IF Called(r) /\ CallOutcome(out) = "return"
                         THEN [pyobj EXCEPT ![bound[k]].rows = newRows] ELSE pyobj
             /\ models' = IF k = "reset" /\ Called(r)
                          THEN [models EXCEPT
                                  ![m] = endReset(models[m], cls,
                                                  pyobj'[models[m].backend].rows)]
                          ELSE models
             /\ pyerr' = IF r.ret = "err" THEN r.exc ELSE pyerr
    /\ UNCHANGED <<conv, cls, wrapped, plist, bound, bridgeMap, typeModelMap, query, reg>>

\* The @complete-decorated methods of the class, in dir() order.  In Type
\* mode every decorator of the class is bound by the same loop, so both
\* have the binding bound["complete"].
CompleteMethods == <<"on_complete", "on_ready">>
\* The keys of m_propertyMap of adapter a, in ascending order.
PropertyIndexes(a) ==
    LET S == {e[1] : e \in reg.propertyMap[a]}
    IN [j \in 1..Cardinality(S) |->
          CHOOSE x \in S : Cardinality({y \in S : y < x}) = j - 1]
PropertyChangedEv(a, id) == [p |-> "notify", m |-> a, prop |-> id]

\* The loop over dir(type) of callCompleteDecorators from method i on: err
\* is the error indicator, outs[i] what the i-th wrapped method would do.
\* Each decorator is called with no arguments; when the call fails its
\* exception is logged and cleared and the loop goes on.
RECURSIVE completeLoop_stopAtFailure(_, _, _)
completeLoop_stopAtFailure(i, outs, err) ==
    IF i > Len(CompleteMethods) THEN [events |-> <<>>, err |-> err]
    ELSE LET r == complete_tp_call(<<>>, NoKwds, IF err # NoErr THEN "raise" ELSE outs[i])
         IN IF r.ret = "err" THEN [events |-> r.events, err |-> NoErr]
            ELSE [events |-> r.events \o completeLoop_stopAtFailure(i + 1, outs, err).events,
                  err |-> completeLoop_stopAtFailure(i + 1, outs, err).err]
RECURSIVE completeLoop(_, _, _)
completeLoop(i, outs, err) ==
    IF i > Len(CompleteMethods) THEN [events |-> <<>>, err |-> err]
    ELSE LET r == complete_tp_call(<<>>, NoKwds, IF err # NoErr THEN "raise" ELSE outs[i])
             rest == completeLoop(i + 1, outs, IF r.ret = "err" THEN NoErr ELSE err)
         IN [events |-> r.events \o rest.events, err |-> rest.err]

\* BridgePyTypeObjectModel::callCompleteDecorators
callCompleteDecorators(a, outs) ==
    IF models[a].backend = NoObj THEN [events |-> <<>>, err |-> pyerr]
    ELSE [events |-> completeLoop(1, outs, pyerr).events
                        \o [i \in 1..Len(PropertyIndexes(a)) |->
                              PropertyChangedEv(a, reg.description.props[PropertyIndexes(a)[i]])],
          err |-> completeLoop(1, outs, pyerr).err]

\* BridgePyTypeObjectModel::componentComplete
LifeComplete(a) ==
    /\ Idle
    /\ models[a].state = "live" /\ models[a].isType
    /\ \E outs \in [1..Len(CompleteMethods) -> Outs] :
          /\ call' = [kind |-> "componentComplete", via |-> a, recv |-> bound["complete"],
                      model |-> a, outs |-> outs,
                      events |-> callCompleteDecorators(a, outs).events,
                      ret |-> "ok", exc |-> "none"]
          /\ pyerr' = callCompleteDecorators(a, outs).err
    /\ UNCHANGED <<conv, cls, wrapped, plist, bound, pyobj, models, bridgeMap,
                   typeModelMap, query, reg>>

\* Python code gives the class a property it did not have when it was
\* registered, or takes one away.
LifeSetAttr ==
    /\ Idle
    /\ \E n \in LateProps \cup {"items"} :
          reg' = [reg EXCEPT !.classProps = IF n \in @ THEN @ \ {n} ELSE @ \cup {n}]
    /\ UNCHANGED <<conv, cls, wrapped, pyerr, plist, bound, pyobj, models, bridgeMap,
                   typeModelMap, call, query>>

NextLife ==
    \/ LifeSetAttr
    \/ \E a \in ModelIds : LifeCreate(a)
    \/ \E a \in ModelIds : LifeDestroy(a)
    \/ \E o \in Objs, a \in ModelIds : LifeRegister(o, a)
    \/ LifeCleanup
    \/ \E a \in ModelIds, k \in BracketKinds : LifeInvoke(a, k)
    \/ \E a \in ModelIds : LifeComplete(a)
    \/ Return

SpecLife == InitLife /\ [][NextLife]_vars

HasBackend(a, b) == models[a].state = "live" /\ models[a].isType /\ models[a].backend = b

\* C21: the Type-mode registry has an entry for object b exactly when a
\* live UI-instantiated adapter has b as its backend, and the entry is that
\* adapter; no entry refers to a destroyed adapter.
C21_TypeRegistryMatchesAdapters ==
    \A b \in Objs :
        /\ typeModelMap[b] # NoModelId <=> \E a \in ModelIds : HasBackend(a, b)
        /\ \A a \in ModelIds : HasBackend(a, b) => typeModelMap[b] = a

\* What C21 states, for a class that makes a new object at every
\* instantiation; and for every class, that an entry never refers to a
\* destroyed adapter or to an adapter of another object.
TypeRegistryOfFreshInstances ==
    /\ cls.ctor = "fresh"
          => \A b \in Objs :
                /\ typeModelMap[b] # NoModelId <=> \E a \in ModelIds : HasBackend(a, b)
                /\ \A a \in ModelIds : HasBackend(a, b) => typeModelMap[b] = a
    /\ \A b \in Objs :
          typeModelMap[b] # NoModelId => HasBackend(typeModelMap[b], b)

\* C22: instantiating the registered type from the UI leaves the finalized
\* description as it was, and every property handler of a UI-instantiated
\* adapter is stored under the index of the description's property of the
\* same name.
C22_InstantiationKeepsDescription ==
    /\ reg.description = FinalDescription
    /\ \A a \in ModelIds :
         models[a].state = "live" /\ models[a].isType =>
            \A e \in reg.propertyMap[a] :
               /\ e[1] \in 1..Len(FinalDescription.props)
               /\ FinalDescription.props[e[1]] = e[2]

\* An adapter was instantiated after the class gained a property and lost
\* one; handlers were associated with it.
InstantiatedAfterClassChanged ==
    /\ query.op = "create"
    /\ query.instance # NoObj
    /\ reg.propertyMap[query.m] # NoPropertyMap
    /\ "extra" \in reg.classProps
    /\ "items" \notin reg.classProps
    /\ \E b \in ModelIds \ {query.m} : models[b].state = "live" /\ models[b].isType

\* What componentComplete did on adapter call.via: one call of each
\* @complete method, then one notification of each associated property.
CompleteRanAll ==
    LET n == Len(CompleteMethods)
        ev == call.events
    IN /\ Len(ev) = n + Cardinality(reg.propertyMap[call.via])
       /\ \A i \in 1..Len(ev) :
             IF i <= n THEN ev[i].p = "call" ELSE ev[i].p = "notify" /\ ev[i].m = call.via
       /\ \A e \in reg.propertyMap[call.via] :
             Cardinality({i \in (n + 1)..Len(ev) : ev[i].prop = e[2]}) = 1

TornDown(o) ==
    /\ bridgeMap[o] = NoModelId
    /\ \A a \in ModelIds : models[a].state = "live" => models[a].backend # o

\* C26: once the handle and the adapter of a backend (or its
\* UI-instantiated adapter) are torn down, the handle, the adapter and the
\* decorators hold no reference on the backend, and no holder has released
\* more references than it took.
C26_ReferencesReleased ==
    \A o \in Objs :
       /\ \A holder \in DOMAIN NoRefs : pyobj[o].refs[holder] >= 0
       /\ TornDown(o) =>
             pyobj[o].refs.handle + pyobj[o].refs.adapter + pyobj[o].refs.decorator = 0

\* What each holder holds at any time: the handle one reference while it is
\* stored, every live adapter one, every decorator bound to o one.
ReferencesMatchHolders ==
    \A o \in Objs :
       /\ pyobj[o].refs.handle = IF bridgeMap[o] # NoModelId THEN 1 ELSE 0
       /\ pyobj[o].refs.adapter =
             Cardinality({a \in ModelIds : models[a].state = "live" /\ models[a].backend = o})
       /\ pyobj[o].refs.decorator =
             Cardinality({i \in 1..Len(DirOrder) : bound[DirOrder[i]] = o})

\* Every wrapped method the pending call ran had the backend of adapter
\* call.via as receiver, and every bracket it opened or closed was on
\* call.via.
RanOnOwnInstance ==
    \A i \in 1..Len(call.events) :
       /\ call.events[i].p = "call" => call.events[i].recv = models[call.via].backend
       /\ call.events[i].p \notin {"call", "notify"} => call.events[i].m = call.via

\* C27: with several live instances of one Python type, a bracket- or
\* complete-decorated method invoked through adapter X (a UI method invoke
\* or X's componentComplete) runs with X's backend as receiver and brackets
\* X's adapter, never another instance's.
C27_InvokeOnOwnInstance ==
    call.kind \in BracketKinds \cup {"componentComplete"} => RanOnOwnInstance

\* The same for the calls made through the adapter the decorators were
\* bound to last, when the registry resolves its backend to it.
LastBoundInstanceServed ==
    /\ call.kind \in BracketKinds \cup {"componentComplete"}
    /\ models[call.via].backend # NoObj
    /\ \A k \in Kinds : bound[k] = models[call.via].backend
    /\ bridgeMap[models[call.via].backend] = call.via
          \/ (/\ bridgeMap[models[call.via].backend] = NoModelId
              /\ typeModelMap[models[call.via].backend] = call.via)
    => RanOnOwnInstance

\* The pending call closed an insert or remove bracket on a PrimitiveList
\* adapter whose backend keeps its rows in a list, with a row to remove or
\* room for the row to insert.
ClosedRowBracket ==
    /\ call.kind \in {"insert", "remove"}
    /\ \E i \in 1..Len(call.events) : call.events[i].p \in {"finishInsert", "finishRemove"}
    /\ models[call.model].datatype = "List"
    /\ cls.container = "list"
    /\ call.kind = "insert" => call.pre < MaxLen
    /\ call.kind = "remove" => call.pre > 0

\* The rows announced to the UI once the bracket of the pending call closed.
AnnouncedRows == call.pre + (IF call.kind = "insert" THEN 1 ELSE -1)

\* C28: after every insert or remove bracket on a PrimitiveList adapter
\* closes, the row count announced to the UI equals rowCount(), also when
\* the wrapped method raised.
C28_AnnouncedRowsMatch ==
    ClosedRowBracket =>
       AnnouncedRows = rowCount(models[call.model], FALSE, cls,
                                RowsOf(models[call.model].backend))

\* The same for the calls whose wrapped method returned.
AnnouncedRowsMatchOnReturn ==
    ClosedRowBracket /\ call.ret = "ok" =>
       AnnouncedRows = rowCount(models[call.model], FALSE, cls,
                                RowsOf(models[call.model].backend))

\* The begin primitive ev carries indices valid for n rows.
ValidBegin(ev, n) ==
    CASE ev.p = "startInsert" -> ev.first = ev.last /\ 0 <= ev.first /\ ev.first <= n
      [] ev.p = "startRemove" -> ev.first = ev.last /\ 0 <= ev.first /\ ev.first < n
      [] ev.p = "startMove" -> /\ ev.first = ev.last /\ 0 <= ev.first /\ ev.first < n
                               /\ 0 <= ev.dest /\ ev.dest <= n
                               /\ ev.dest \notin {ev.first, ev.first + 1}
      [] OTHER -> TRUE

\* C36: every begin primitive issued by a bracket decorator carries indices
\* valid for the adapter's row count n just before the bracket opens:
\* startInsert(i, i) with 0 <= i <= n, startRemove(i, i) with 0 <= i < n,
\* startMove(f, f, d) with 0 <= f < n, 0 <= d <= n and d not in {f, f + 1};
\* a call with any other index opens no bracket.
C36_BeginIndicesValid ==
    call.kind \in BracketKinds =>
       \A i \in 1..Len(call.events) : ValidBegin(call.events[i], call.pre)

\* What holds instead: an @insert call from which no index is extracted
\* opens its bracket at the end, with valid indices.
AppendIndicesValid ==
    (/\ call.kind = "insert"
     /\ ~extractArgumentByName(call.func, call.args, call.kwds, "index").found)
       => \A i \in 1..Len(call.events) : ValidBegin(call.events[i], call.pre)

\* The record fields the backend of a class makes known once its rows are
\* `rows`: those of the dataclass its hint names, else those of its first row.
FieldsKnown(c, rows) ==
    IF Hint(c.hint).present /\ Hint(c.hint).args.t = "rectype" THEN ItemFields
    ELSE IF c.container = "list" /\ rows # <<>> /\ isDataClassInstance(rows[1])
    THEN ItemFields
    ELSE <<>>

\* A step in which a @reset call ran endReset on its adapter.
ResetStep ==
    /\ call.kind = "idle"
    /\ call'.kind = "reset"
    /\ \E i \in 1..Len(call'.events) : call'.events[i].p = "endReset"

SingletonKept(o) ==
    /\ bridgeMap'[o] = bridgeMap[o]
    /\ models'[bridgeMap[o]].state = "live"

HandedToQml(o) == bridgeMap[o] # NoModelId /\ models[bridgeMap[o]].state = "live"

\* C38: once bridge_instance has handed an adapter to the QML engine as a
\* singleton, the adapter stays alive and remains the Instance-mode registry
\* entry of its object until module cleanup clears the registry; a second
\* bridge_instance call for the same object does not destroy it.
C38_SingletonStaysAlive ==
    [][\A o \in Objs :
          (HandedToQml(o) /\ query'.op # "cleanup") => SingletonKept(o)]_vars

\* What holds instead: the adapter stays alive and registered through every
\* step that is neither module cleanup nor a bridge_instance call for the
\* same object.
SingletonStaysUntilReplaced ==
    [][\A o \in Objs :
          (/\ HandedToQml(o)
           /\ query'.op # "cleanup"
           /\ ~(query'.op = "register" /\ query'.o = o /\ query' # query))
             => SingletonKept(o)]_vars

(***************************************************************************)
(* Specification SpecMeta: a Bridge Handle's meta-object builder and its   *)
(* finalization (autoqmlbridge.cpp).                                        *)
(***************************************************************************)
MaxFinalize == 3
HandleModes == {"Instance", "Type", "NoType"}
MetaProps == <<"count", "title", "value">>
MetaMethods == <<"clear", "insert_at", "remove_at">>

\* The order-preserving sub-sequences of s: what a class may declare.
SubSeqs(s) ==
    {SelectSeq(s, LAMBDA x : x \in keep) : keep \in SUBSET {s[i] : i \in 1..Len(s)}}

NullMetaObject == [null |-> TRUE, props |-> <<>>, methods |-> <<>>, signals |-> <<>>]
NoBuilder == [present |-> FALSE, props |-> <<>>, methods |-> <<>>, signals |-> <<>>]

\* registerSingleProperty: one notify signal, then the property.
registerSingleProperty(b, name) ==
    [b EXCEPT !.signals = Append(@, <<name, "Changed">>), !.props = Append(@, name)]

RECURSIVE registerProperties(_, _, _)
registerProperties(b, props, i) ==
    IF i > Len(props) THEN b
    ELSE registerProperties(registerSingleProperty(b, props[i]), props, i + 1)

\* registerMethodsFromType: one slot per method.
registerMethods(b, methods) == [b EXCEPT !.methods = @ \o methods]

\* AutoQmlBridgePrivate::setupMetaObjectBuilder, run by each constructor:
\* no builder without a Python type; the adapter only in Instance mode.
setupMetaObjectBuilder(mode, props, methods) ==
    IF mode = "NoType"
    THEN [mode |-> mode, builder |-> NoBuilder, hasModel |-> FALSE,
          classProps |-> <<>>, classMethods |-> <<>>,
          dynamicMetaObject |-> NullMetaObject, returned |-> <<>>]
    ELSE [mode |-> mode,
          builder |-> registerMethods(
                          registerProperties([NoBuilder EXCEPT !.present = TRUE], props, 1),
                          methods),
          hasModel |-> (mode = "Instance"),
          classProps |-> props, classMethods |-> methods,
          dynamicMetaObject |-> NullMetaObject, returned |-> <<>>]

\* MetaObjectBuilder::update(): the meta object made of the builder's entries.
update(b) ==
    [null |-> FALSE, props |-> b.props, methods |-> b.methods, signals |-> b.signals]

\* AutoQmlBridgePrivate::finalizeMetaObject
finalizeMetaObject_registeringAgain(h) ==
    IF ~h.builder.present THEN [h EXCEPT !.returned = Append(@, NullMetaObject)]
    ELSE LET b == registerMethods(registerProperties(h.builder, h.classProps, 1),
                                  h.classMethods)
         IN [h EXCEPT !.builder = b,
                      !.dynamicMetaObject = IF h.hasModel THEN update(b) ELSE @,
                      !.returned = Append(@, update(b))]
finalizeMetaObject(h) ==
    IF ~h.builder.present THEN [h EXCEPT !.returned = Append(@, NullMetaObject)]
    ELSE [h EXCEPT !.dynamicMetaObject = IF h.hasModel THEN update(h.builder) ELSE @,
                   !.returned = Append(@, update(h.builder))]

InitMeta ==
    /\ RestInit
    /\ conv = IdleConv
    /\ \E mode \in HandleModes, props \in SubSeqs(MetaProps), methods \in SubSeqs(MetaMethods) :
          reg = setupMetaObjectBuilder(mode, props, methods)

MetaFinalize ==
    /\ Len(reg.returned) < MaxFinalize
    /\ reg' = finalizeMetaObject(reg)
    /\ UNCHANGED <<conv, cls, wrapped, pyerr, plist, bound, pyobj, models, bridgeMap,
                   typeModelMap, call, query>>

NextMeta == MetaFinalize

SpecMeta == InitMeta /\ [][NextMeta]_vars

\* C23: finalizing a handle a second time returns a description with the
\* same property and callable entries as the first, adds no property, no
\* callable and no notification channel to the builder, and the adapter,
\* when there is one, holds the description that was returned.
C23_FinalizeTwice ==
    Len(reg.returned) >= 2 =>
       LET n == Len(reg.returned)
       IN /\ reg.returned[n] = reg.returned[n - 1]
          /\ reg.builder = setupMetaObjectBuilder(reg.mode, reg.classProps,
                                                  reg.classMethods).builder
          /\ Len(reg.returned[n].signals) = Len(reg.returned[n].props)
          /\ reg.hasModel => reg.dynamicMetaObject = reg.returned[n]

\* An Instance-mode handle with properties and methods was finalized twice.
FinalizedTwiceWithAdapter ==
    /\ Len(reg.returned) = 2
    /\ reg.hasModel
    /\ Len(reg.builder.props) = 2
    /\ Len(reg.builder.methods) = 1

(***************************************************************************)
(* Specification SpecDeco: constructing a decorator object around a       *)
(* Python object (tp_init of the five decorator types).                    *)
(***************************************************************************)
\* The objects a decorator is applied to.  "not_callable" is an object that
\* cannot be called; remove_kwonly is `def remove_kwonly(self, *, index)`,
\* move_kwonly is `def move_kwonly(self, from_index, *, to_index)`.
DecoFuncs ==
    {"add_item", "insert_at", "add_kw", "remove_at", "move_row", "clear", "on_complete",
     "remove_noget", "move_noget", "callable_obj", "remove_kwonly", "move_kwonly",
     "move_from_only", "index_first", "not_callable"}

\* The keyword-only parameters of a function: co_varnames from co_argcount
\* up to co_argcount + co_kwonlyargcount.
KwOnly(f) ==
    CASE f = "remove_kwonly" -> {"index"}
      [] f = "move_kwonly" -> {"to_index"}
      [] OTHER -> {}

\* Every parameter the function declares.
Parameters(f) == {Func(f).varnames[i] : i \in 1..Len(Func(f).varnames)} \cup KwOnly(f)
\* The ones that can be passed by position.
PositionalParameters(f) == {Func(f).varnames[i] : i \in 1..Len(Func(f).varnames)}

\* tp_new then tp_init: the decorator object, if tp_init accepted f.
DecoratorNew(k, f) ==
    IF tp_init(k, f)
    THEN [kind |-> "constructed", k |-> k, f |-> f, ret |-> "ok", exc |-> "none",
          m_wrapped_func |-> f, m_backend_instance |-> NoObj]
    ELSE [kind |-> "constructed", k |-> k, f |-> f, ret |-> "err", exc |-> "TypeError",
          m_wrapped_func |-> NoFunc, m_backend_instance |-> NoObj]

InitDeco ==
    /\ cls = BaseClassCfg
    /\ wrapped = StockWrapped
    /\ bound = [k \in Kinds |-> NoObj]
    /\ pyobj = [o \in Objs |-> [rows |-> <<>>]]
    /\ models = [a \in ModelIds |-> NoModel]
    /\ bridgeMap = [o \in Objs |-> NoModelId]
    /\ typeModelMap = [o \in Objs |-> NoModelId]
    /\ query = IdleQuery
    /\ pyerr = NoErr
    /\ plist = <<>>
    /\ conv = IdleConv
    /\ reg = IdleReg
    /\ \E k \in Kinds, f \in DecoFuncs : call = [kind |-> "decorate", k |-> k, f |-> f]

Decorate ==
    /\ call.kind = "decorate"
    /\ call' = DecoratorNew(call.k, call.f)
    /\ pyerr' = DecoratorNew(call.k, call.f).exc
    /\ UNCHANGED <<conv, cls, wrapped, plist, bound, pyobj, models, bridgeMap,
                   typeModelMap, query, reg>>

NextDeco == Decorate

SpecDeco == InitDeco /\ [][NextDeco]_vars

\* What construction must do when the named parameters are looked for in
\* the set `params(f)` of parameters of the decorated object.
ConstructionFollows(params(_)) ==
    call.kind = "constructed" =>
       IF \/ ~Func(call.f).callable
          \/ call.k = "remove" /\ "index" \notin params(call.f)
          \/ call.k = "move" /\ ~({"from_index", "to_index"} \subseteq params(call.f))
       THEN call.ret = "err" /\ call.exc = "TypeError" /\ call.m_wrapped_func = NoFunc
       ELSE /\ call.ret = "ok"
            /\ call.m_wrapped_func = call.f
            /\ call.m_backend_instance = NoObj

\* C24: construction fails with a type error, capturing nothing, when the
\* object is not callable, when a @remove method has no parameter named
\* index, or when a @move method lacks from_index or to_index; in every
\* other case it succeeds, captures the method and is unbound.
C24_DecoratorConstruction == ConstructionFollows(Parameters)

\* The same with only the parameters that can be passed by position.
ConstructionFollowsPositional == ConstructionFollows(PositionalParameters)

(***************************************************************************)
(* Specification SpecHint: classification of a backend from str() of the   *)
(* return-type hint of data() (helpers.cpp), character by character.       *)
(***************************************************************************)
\* The characters of the words hints are written with.
Spell(n) ==
    CASE n = "str" -> <<"s", "t", "r">>
      [] n = "int" -> <<"i", "n", "t">>
      [] n = "float" -> <<"f", "l", "o", "a", "t">>
      [] n = "bool" -> <<"b", "o", "o", "l">>
      [] n = "Item" -> <<"I", "t", "e", "m">>
      [] n = "Person" -> <<"P", "e", "r", "s", "o", "n">>
      [] n = "Interval" -> <<"I", "n", "t", "e", "r", "v", "a", "l">>
      [] n = "Point" -> <<"P", "o", "i", "n", "t">>
      [] n = "Printer" -> <<"P", "r", "i", "n", "t", "e", "r">>
      [] n = "Constraint" -> <<"C", "o", "n", "s", "t", "r", "a", "i", "n", "t">>
      [] n = "Destroyer" -> <<"D", "e", "s", "t", "r", "o", "y", "e", "r">>
      [] n = "Afloat" -> <<"A", "f", "l", "o", "a", "t">>
      [] n = "list[" -> <<"l", "i", "s", "t", "[">>
      [] n = "]" -> <<"]">>
      [] n = "typing.List[" -> <<"t", "y", "p", "i", "n", "g", ".", "L", "i", "s", "t", "[">>
      [] n = "List[" -> <<"L", "i", "s", "t", "[">>
      [] n = "__main__." -> <<"_", "_", "m", "a", "i", "n", "_", "_", ".">>
      [] n = "list" -> <<"l", "i", "s", "t">>
      [] n = "typing.List" -> <<"t", "y", "p", "i", "n", "g", ".", "L", "i", "s", "t">>
      [] n = "<class 'list'>" -> <<"<", "c", "l", "a", "s", "s", " ", "'", "l", "i", "s", "t", "'", ">">>

PrimitiveNames == {"str", "int", "float", "bool"}
DataClassNames == {"Item", "Person", "Interval", "Point", "Printer", "Constraint", "Destroyer", "Afloat"}

\* str(hint) of each way to write the hint: list[X], typing.List[X], the
\* string annotation "List[X]"; a dataclass of the main module prints with
\* its module unless the annotation is a string.
HintForms == {"list[", "typing.List[", "List["}
QualName(n, form) ==
    IF n \in DataClassNames /\ form # "List[" THEN Spell("__main__.") \o Spell(n)
    ELSE Spell(n)
ListHintText(form, n) == Spell(form) \o QualName(n, form) \o Spell("]")
\* A hint that names no element type: the type list, typing.List, "list".
BareHints == {"<class 'list'>", "typing.List", "list"}

\* QByteArray::contains and QByteArray::startsWith
contains(t, w) == \E i \in 1..(Len(t) - Len(w) + 1) : SubSeq(t, i, i + Len(w) - 1) = w
startsWith(t, w) == Len(t) >= Len(w) /\ SubSeq(t, 1, Len(w)) = w

\* isListTypeHint on the characters of the hint
isListTypeHint_text(t) ==
    \/ contains(t, Spell("list["))
    \/ startsWith(t, Spell("typing.List"))
    \/ startsWith(t, Spell("List["))

\* inferDataType for a class with a data() method whose hint prints as t
inferDataType_text(t, c, rows) ==
    IF /\ isListTypeHint_text(t)
       /\ ~contains(t, Spell("str"))
       /\ ~contains(t, Spell("int"))
       /\ ~contains(t, Spell("float"))
    THEN "DataClassList"
    ELSE IF isListTypeHint_text(t) \/ t = Spell("list")
    THEN "List"
    ELSE IF PyList_Check(DataOf(c, rows)) \/ PyTuple_Check(DataOf(c, rows))
    THEN (IF isDataClassList(DataOf(c, rows)) THEN "DataClassList" ELSE "List")
    ELSE IF IsDataFrame(DataOf(c, rows)) THEN "Table"
    ELSE IF PySequence_Check(DataOf(c, rows)) THEN "List"
    ELSE "Unknown"

\* The hinted classes: what data() is declared to return and what it
\* returns (one row of the declared element kind, or no row).
HintInputs ==
    {[stage |-> "hinted", of |-> n, form |-> form, text |-> ListHintText(form, n)] :
        n \in PrimitiveNames \cup DataClassNames, form \in HintForms}
    \cup {[stage |-> "hinted", of |-> "none", form |-> b, text |-> Spell(b)] : b \in BareHints}

InitHint ==
    /\ conv \in HintInputs
    /\ cls \in {[hasData |-> TRUE, hint |-> "none", container |-> k,
                 elem |-> IF conv.of \in DataClassNames THEN "rec" ELSE "prim"] :
                   k \in {"list", "tuple"}}
    /\ wrapped = StockWrapped
    /\ bound = [k \in Kinds |-> NoObj]
    /\ pyobj \in {[o \in Objs |-> [rows |-> rows]] : rows \in {<<>>, <<ElemOf(cls)>>}}
    /\ models = [a \in ModelIds |-> NoModel]
    /\ bridgeMap = [o \in Objs |-> NoModelId]
    /\ typeModelMap = [o \in Objs |-> NoModelId]
    /\ call = IdleCall
    /\ query = IdleQuery
    /\ pyerr = NoErr
    /\ plist = <<>>
    /\ reg = IdleReg

\* inferDataType(instance) of an object of the class
InferHint ==
    /\ conv.stage = "hinted"
    /\ conv' = [stage |-> "classified", of |-> conv.of, form |-> conv.form,
                text |-> conv.text,
                datatype |-> inferDataType_text(conv.text, cls, RowsOf("o1"))]
    /\ UNCHANGED <<cls, wrapped, pyerr, plist, bound, pyobj, models, bridgeMap,
                   typeModelMap, call, query, reg>>

NextHint == InferHint

SpecHint == InitHint /\ [][NextHint]_vars

\* C29: a hint for a list of a dataclass C is classified RecordList
\* (DataClassList) whatever the name of C; a hint for a list of str, int,
\* float or bool, or a bare list, is classified PrimitiveList (List).
C29_HintClassification ==
    conv.stage = "classified" =>
       /\ conv.of \in DataClassNames => conv.datatype = "DataClassList"
       /\ conv.of \in PrimitiveNames \cup {"none"} => conv.datatype = "List"

\* The same for the dataclass names without str, int or float in them, the
\* element types str, int and float, and the string annotation "list".
HintClassificationOfPlainNames ==
    conv.stage = "classified" =>
       /\ conv.of \in {"Item", "Person", "Interval"} => conv.datatype = "DataClassList"
       /\ conv.of \in {"str", "int", "float"} => conv.datatype = "List"
       /\ conv.form = "list" => conv.datatype = "List"

(***************************************************************************)
(* Specification SpecRet: the return type declared for a registered        *)
(* callable (getReturnTypeName, autoqmlbridge.cpp).                        *)
(***************************************************************************)
\* The objects found under "return" in __annotations__: t = "type" for a
\* type object (PyType_Check), with its tp_name and whether it is the
\* builtin of that name; "alias" for a parameterized hint (list[str],
\* typing.List[int], dict[str, int]); "str" for a string annotation;
\* "object" for any other object (None, typing.Any).
Ann(t, name, builtin) == [t |-> t, name |-> name, builtin |-> builtin]
NoReturnAnn == Ann("absent", "", FALSE)
ReturnAnns ==
    {Ann("type", n, TRUE) : n \in {"list", "dict", "str", "int", "float", "bool", "tuple"}}
    \cup {Ann("type", n, FALSE) : n \in {"Item", "MyList", "list", "dict"}}
    \cup {Ann("alias", n, FALSE) :
            n \in {"list[str]", "list[Item]", "dict[str, int]", "typing.List[int]"}}
    \cup {Ann("str", n, FALSE) : n \in {"list", "int", "Item"}}
    \cup {Ann("object", n, FALSE) : n \in {"None", "typing.Any"}}
    \cup {NoReturnAnn}
RegisteredCallables == {"add_item", "clear", "count_rows"}

PyType_Check(a) == a.t = "type"

\* getReturnTypeName(method, methodName)
getReturnTypeName(hasAnnotations, a) ==
    IF hasAnnotations /\ a.t # "absent" /\ PyType_Check(a)
    THEN (IF a.name = "list" THEN "QVariantList"
          ELSE IF a.name = "dict" THEN "QVariantMap"
          ELSE "QVariant")
    ELSE "void"

InitRet ==
    /\ RestInit
    /\ reg = IdleReg
    /\ \E m \in RegisteredCallables, a \in ReturnAnns, argsAnnotated \in BOOLEAN,
          hasAnnotations \in BOOLEAN :
          /\ ~hasAnnotations => a = NoReturnAnn /\ ~argsAnnotated
          /\ conv = [stage |-> "annotated", method |-> m, ann |-> a,
                     argsAnnotated |-> argsAnnotated,
                     hasAnnotations |-> hasAnnotations]

\* registerMethodsFromType asks for the return type of the method
ReturnTypeOf ==
    /\ conv.stage = "annotated"
    /\ conv' = [conv EXCEPT !.stage = "typed"]
    /\ query' = [op |-> "getReturnTypeName",
                 ret |-> getReturnTypeName(conv.hasAnnotations, conv.ann)]
    /\ UNCHANGED <<cls, wrapped, pyerr, plist, bound, pyobj, models, bridgeMap,
                   typeModelMap, call, reg>>

NextRet == ReturnTypeOf

SpecRet == InitRet /\ [][NextRet]_vars

IsTheType(a, n) == a.t = "type" /\ a.name = n /\ a.builtin

\* C30: the declared return type of a registered callable is QVariantList
\* when the return annotation is the type list, QVariantMap when it is the
\* type dict, QVariant for any other return annotation whatever its form,
\* and void only when there is no return annotation.
C30_ReturnTypeName ==
    conv.stage = "typed" =>
       query.ret = IF conv.ann.t = "absent" THEN "void"
                   ELSE IF IsTheType(conv.ann, "list") THEN "QVariantList"
                   ELSE IF IsTheType(conv.ann, "dict") THEN "QVariantMap"
                   ELSE "QVariant"

\* The same for the annotations that are type objects not named like a
\* builtin container, and for methods without a return annotation.
ReturnTypeNameOfTypes ==
    conv.stage = "typed" /\ conv.ann.t \in {"type", "absent"}
       /\ (conv.ann.name \in {"list", "dict"} => conv.ann.builtin) =>
       query.ret = IF conv.ann.t = "absent" THEN "void"
                   ELSE IF IsTheType(conv.ann, "list") THEN "QVariantList"
                   ELSE IF IsTheType(conv.ann, "dict") THEN "QVariantMap"
                   ELSE "QVariant"

(***************************************************************************)
(* Specification SpecIntro: introspection of the members of a class into   *)
(* the meta-object builder (registerMethodsFromType,                       *)
(* registerPropertiesFromType).                                            *)
(***************************************************************************)
\* dir(type), which Python returns sorted, and the characters of each name.
IntroDir == <<"__init__", "_helper", "_secret", "clear", "data", "limit", "title">>
NameChars(n) ==
    CASE n = "__init__" -> <<"_", "_", "i", "n", "i", "t", "_", "_">>
      [] n = "_helper" -> <<"_", "h", "e", "l", "p", "e", "r">>
      [] n = "_secret" -> <<"_", "s", "e", "c", "r", "e", "t">>
      [] n = "clear" -> <<"c", "l", "e", "a", "r">>
      [] n = "data" -> <<"d", "a", "t", "a">>
      [] n = "limit" -> <<"l", "i", "m", "i", "t">>
      [] n = "title" -> <<"t", "i", "t", "l", "e">>

\* What a class can have under each name: a plain method, a property,
\* another attribute, or nothing.
MemberKinds(n) ==
    CASE n = "__init__" -> {"method"}
      [] n = "_helper" -> {"method", "absent"}
      [] n = "_secret" -> {"property", "absent"}
      [] n = "clear" -> {"method", "absent"}
      [] n = "data" -> {"method", "property", "absent"}
      [] n = "limit" -> {"attr", "property", "absent"}
      [] n = "title" -> {"property", "method", "absent"}
IntroClasses ==
    {c \in [{IntroDir[i] : i \in 1..Len(IntroDir)} ->
              {"method", "property", "attr", "absent"}] :
        \A i \in 1..Len(IntroDir) : c[IntroDir[i]] \in MemberKinds(IntroDir[i])}

\* registerMethodsFromType: the names that get a slot, in dir() order
RECURSIVE registerMethodsFromType_names(_, _)
registerMethodsFromType_names(c, i) ==
    IF i > Len(IntroDir) THEN <<>>
    ELSE LET methodName == NameChars(IntroDir[i])
             rest == registerMethodsFromType_names(c, i + 1)
         IN IF c[IntroDir[i]] # "method" THEN rest
            ELSE IF methodName[1] = "_" THEN rest
            ELSE IF methodName = <<"d", "a", "t", "a">> THEN rest
            ELSE <<IntroDir[i]>> \o rest

\* registerPropertiesFromType: the names handed to registerSingleProperty
RECURSIVE registerPropertiesFromType_names(_, _)
registerPropertiesFromType_names(c, i) ==
    IF i > Len(IntroDir) THEN <<>>
    ELSE IF c[IntroDir[i]] = "property"
    THEN <<IntroDir[i]>> \o registerPropertiesFromType_names(c, i + 1)
    ELSE registerPropertiesFromType_names(c, i + 1)

InitIntro ==
    /\ RestInit
    /\ conv = IdleConv
    /\ \E c \in IntroClasses, mode \in {"Instance", "Type"} :
          reg = [stage |-> "declared", mode |-> mode, members |-> c]

\* The handle's constructor: setupMetaObjectBuilder on the class
Introspect ==
    /\ reg.stage = "declared"
    /\ reg' = [stage |-> "introspected", mode |-> reg.mode, members |-> reg.members,
               handle |-> setupMetaObjectBuilder(
                              reg.mode,
                              registerPropertiesFromType_names(reg.members, 1),
                              registerMethodsFromType_names(reg.members, 1))]
    /\ UNCHANGED <<conv, cls, wrapped, pyerr, plist, bound, pyobj, models, bridgeMap,
                   typeModelMap, call, query>>

NextIntro == Introspect

SpecIntro == InitIntro /\ [][NextIntro]_vars

\* Name n may be exposed: it does not begin with '_' and is not "data".
Exposable(n) == NameChars(n)[1] # "_" /\ n # "data"

\* C31: after introspection the description has no property and no
\* callable whose name begins with '_' or is "data".
C31_NoReservedMembers ==
    reg.stage = "introspected" =>
       /\ \A i \in 1..Len(reg.handle.builder.methods) :
             Exposable(reg.handle.builder.methods[i])
       /\ \A i \in 1..Len(reg.handle.builder.props) :
             Exposable(reg.handle.builder.props[i])

\* The same for the callables alone.
NoReservedCallables ==
    reg.stage = "introspected" =>
       \A i \in 1..Len(reg.handle.builder.methods) :
          Exposable(reg.handle.builder.methods[i])

(***************************************************************************)
(* Specification SpecProp: the type declared for a property from the       *)
(* return annotation of its getter (determinePropertyType, helpers.cpp).   *)
(***************************************************************************)
\* The element types a getter may name, and the ways to write the
\* annotation: list[T] and typing.List[T] are objects with __args__, the
\* string annotation "List[T]" is a str and has none.
ElemTypes == {"Item", "Point"}
PropHintElems == ElemTypes \cup {"str"}
HasArgs(form) == form \in {"list[", "typing.List["}
DictHintText == <<"d", "i", "c", "t", "[", "s", "t", "r", ",", " ", "i", "n", "t", "]">>
PropHints ==
    {[kind |-> "list", of |-> n, form |-> f, text |-> ListHintText(f, n)] :
        n \in PropHintElems, f \in HintForms}
    \cup {[kind |-> "dict", of |-> "none", form |-> "dict[", text |-> DictHintText],
          [kind |-> "scalar", of |-> "Item", form |-> "type",
           text |-> Spell("__main__.") \o Spell("Item")],
          [kind |-> "absent", of |-> "none", form |-> "none", text |-> <<>>]}

\* getDynamicMetaObjectForType: the capsule in the type's own dict
getDynamicMetaObjectForType(meta, T) == T \in ElemTypes /\ meta[T]

\* isQmlRegisteredType(returnType, typeString)
isQmlRegisteredType(meta, h) ==
    IF ~HasArgs(h.form) THEN FALSE
    ELSE getDynamicMetaObjectForType(meta, h.of)

\* determinePropertyType(propertyDescriptor)
determinePropertyType(meta, h) ==
    IF h.kind = "absent" THEN "QVariant"
    ELSE IF isListTypeHint_text(h.text)
    THEN (IF isQmlRegisteredType(meta, h) THEN "QQmlListProperty<QObject>"
          ELSE "QVariantList")
    ELSE IF contains(h.text, <<"d", "i", "c", "t", "[">>)
            \/ startsWith(h.text, <<"t", "y", "p", "i", "n", "g", ".", "D", "i", "c", "t">>)
    THEN "QVariantMap"
    ELSE "QVariant"

NotRegisteredYet == [done |-> FALSE, propType |-> "", metaAt |-> [T \in ElemTypes |-> FALSE]]

InitProp ==
    /\ RestInit
    /\ conv = IdleConv
    /\ \E h \in PropHints :
          reg = [hint |-> h, meta |-> [T \in ElemTypes |-> FALSE], owner |-> NotRegisteredYet]

\* register_type(T) for an element type: its meta object is stored on it.
RegisterElemType(T) ==
    /\ ~reg.meta[T]
    /\ reg' = [reg EXCEPT !.meta[T] = TRUE]
    /\ UNCHANGED <<conv, cls, wrapped, pyerr, plist, bound, pyobj, models, bridgeMap,
                   typeModelMap, call, query>>

\* The class that owns the property is registered: registerSingleProperty
\* declares the property with the type determinePropertyType gives.
RegisterOwner ==
    /\ ~reg.owner.done
    /\ reg' = [reg EXCEPT !.owner = [done |-> TRUE,
                                      propType |-> determinePropertyType(reg.meta, reg.hint),
                                      metaAt |-> reg.meta]]
    /\ UNCHANGED <<conv, cls, wrapped, pyerr, plist, bound, pyobj, models, bridgeMap,
                   typeModelMap, call, query>>

NextProp ==
    \/ \E T \in ElemTypes : RegisterElemType(T)
    \/ RegisterOwner

SpecProp == InitProp /\ [][NextProp]_vars

\* The property of the registered owner is list-valued exactly when its
\* hint is a list of a type that was registered when the owner was, and a
\* QVariantList for every other list hint.
ListValuedIffRegistered ==
    reg.owner.done /\ reg.hint.kind = "list" =>
       reg.owner.propType =
          IF reg.hint.of \in ElemTypes /\ reg.owner.metaAt[reg.hint.of]
          THEN "QQmlListProperty<QObject>" ELSE "QVariantList"

\* C32: a property whose getter is annotated as a list of T is list-valued
\* if and only if T was registered when the owner was registered, else a
\* QVariantList, whatever is registered afterwards.
C32_ListValuedProperty == ListValuedIffRegistered

\* The same for the annotations that carry their element type in __args__.
ListValuedIffRegisteredWithArgs == HasArgs(reg.hint.form) => ListValuedIffRegistered

\* Registering an element type after the owner leaves the owner's property
\* as it was declared.
LaterRegistrationKeepsDescription == [][reg.owner.done => reg'.owner = reg.owner]_vars

(***************************************************************************)
(* Specification SpecView: a view calling rowCount() and data() on a       *)
(* UI-instantiated adapter, with the usage errors the adapter reports.     *)
(***************************************************************************)
MaxViewCalls == 4
ViewAdapter == ModelOrder[2]

\* AutoQmlBridgeModel::rowCount: how many times one call reports the
\* missing-data() usage error (PyErr_SetString, logPythonException)
rowCount_reports(m, parentValid) ==
    IF parentValid \/ m.backend = NoObj THEN 0
    ELSE IF m.datatype = "Unknown" /\ m.isType THEN 1
    ELSE 0
\* AutoQmlBridgeModel::data: it leaves the report to rowCount()
data_reports(m, indexValid) == 0

InitView ==
    /\ cls \in UiClassCfgs
    /\ wrapped = StockWrapped
    /\ bound = [k \in Kinds |-> NoObj]
    /\ \E n \in 0..MaxLen : pyobj = [o \in Objs |-> [rows |-> RowsOfLen(cls, n)]]
    /\ \E tb \in Objs \cup {NoObj} :
          /\ models = [a \in ModelIds |->
                         IF a = ViewAdapter
                         THEN UiTypeModel(tb, cls, IF tb \in Objs THEN RowsOf(tb) ELSE <<>>)
                         ELSE NoModel]
          /\ typeModelMap = [o \in Objs |-> IF o = tb THEN ViewAdapter ELSE NoModelId]
    /\ bridgeMap = [o \in Objs |-> NoModelId]
    /\ call = IdleCall
    /\ query = IdleQuery
    /\ pyerr = NoErr
    /\ plist = <<>>
    /\ conv = IdleConv
    /\ reg = [reports |-> 0, rowCounts |-> 0, datas |-> 0, nonzero |-> FALSE]

ViewRows == IF models[ViewAdapter].backend = NoObj THEN <<>>
            ELSE RowsOf(models[ViewAdapter].backend)

\* The view asks for rowCount(parent)
ViewRowCount ==
    /\ reg.rowCounts + reg.datas < MaxViewCalls
    /\ \E parentValid \in BOOLEAN :
          LET ret == rowCount(models[ViewAdapter], parentValid, cls, ViewRows) IN
          /\ query' = [op |-> "rowCount", parentValid |-> parentValid, ret |-> ret]
          /\ reg' = [reports |-> reg.reports
                                    + rowCount_reports(models[ViewAdapter], parentValid),
                     rowCounts |-> reg.rowCounts + (IF parentValid THEN 0 ELSE 1),
                     datas |-> reg.datas,
                     nonzero |-> reg.nonzero \/ ret # 0]
    /\ UNCHANGED <<conv, cls, wrapped, pyerr, plist, bound, pyobj, models, bridgeMap,
                   typeModelMap, call>>

\* The view asks for data(index, DisplayRole) of a row
ViewData ==
    /\ reg.rowCounts + reg.datas < MaxViewCalls
    /\ \E row \in 0..MaxLen :
          LET ret == data(models[ViewAdapter], TRUE, row, DisplayRole, cls, ViewRows) IN
          /\ query' = [op |-> "data", row |-> row, ret |-> ret]
          /\ reg' = [reports |-> reg.reports + data_reports(models[ViewAdapter], TRUE),
                     rowCounts |-> reg.rowCounts,
                     datas |-> reg.datas + 1,
                     nonzero |-> reg.nonzero \/ ret # QInvalid]
    /\ UNCHANGED <<conv, cls, wrapped, pyerr, plist, bound, pyobj, models, bridgeMap,
                   typeModelMap, call>>

NextView == ViewRowCount \/ ViewData

SpecView == InitView /\ [][NextView]_vars

\* The adapter is UI-instantiated on a backend without data() and a view
\* has asked it for its rows.
UnknownUsedAsModel ==
    /\ models[ViewAdapter].isType
    /\ models[ViewAdapter].backend # NoObj
    /\ models[ViewAdapter].datatype = "Unknown"
    /\ reg.rowCounts >= 1

\* C34: for a UI-instantiated adapter classified Unknown that is used as a
\* list model the missing-data() error is reported exactly once, however
\* often rowCount() and data() are called; every rowCount() is 0 and every
\* data() is no value.
C34_ReportedOnce == UnknownUsedAsModel => reg.reports = 1 /\ ~reg.nonzero

\* What holds instead: one report per rowCount() of the root, and only
\* zero rows and no values.
ReportedAtEveryRowCount ==
    UnknownUsedAsModel => reg.reports = reg.rowCounts /\ ~reg.nonzero

(***************************************************************************)
(* Specification SpecInt: Python ints of every magnitude, held in the list *)
(* of a PrimitiveList backend, are marshaled by pyObject2VariantOpt and by *)
(* the adapter's data().                                                   *)
(***************************************************************************)
IntLists == UNION {[1..n -> ConvInts] : n \in 1..MaxLen}

\* The Python error left pending by the primitive conversion of
\* AutoQmlBridgeModel::data: PyLong_AsLong's error is neither tested nor
\* cleared.
ItemToVariant_err(item) ==
    IF ~PyUnicode_Check(item) /\ PyLong_Check(item) /\ ~PyLong_AsLong(item).ok
    THEN PyLong_AsLong(item).exc
    ELSE NoErr

\* The Python error left pending by pyObject2VariantOpt: PyErr_Clear() follows
\* a failed PyLong_AsLong.
pyObject2VariantOpt_err(obj) == NoErr

InitInt ==
    /\ cls = BaseClassCfg
    /\ wrapped = StockWrapped
    /\ bound = [k \in Kinds |-> "o1"]
    /\ \E L \in IntLists :
          pyobj = [o \in Objs |-> [rows |-> IF o = "o1" THEN L ELSE <<>>]]
    /\ models = [a \in ModelIds |->
                    IF a = ModelOrder[1]
                    THEN NewInstanceModel("o1", inferDataType(cls, RowsOf("o1")), cls,
                                          RowsOf("o1"))
                    ELSE NoModel]
    /\ bridgeMap = [o \in Objs |-> IF o = "o1" THEN ModelOrder[1] ELSE NoModelId]
    /\ typeModelMap = [o \in Objs |-> NoModelId]
    /\ call = IdleCall
    /\ query = IdleQuery
    /\ pyerr = NoErr
    /\ plist = <<>>
    /\ conv = IdleConv
    /\ reg = IdleReg

\* pyObject2VariantOpt of one element of the list
IntForward ==
    /\ pyerr = NoErr
    /\ \E i \in 1..Len(RowsOf("o1")) :
          /\ conv' = [stage |-> "forward", v |-> RowsOf("o1")[i],
                      opt |-> pyObject2VariantOpt(RowsOf("o1")[i])]
          /\ pyerr' = pyObject2VariantOpt_err(RowsOf("o1")[i])
    /\ UNCHANGED <<cls, wrapped, plist, bound, pyobj, models, bridgeMap, typeModelMap,
                   call, query, reg>>

\* The view reads data(index(row), DisplayRole)
IntData ==
    /\ pyerr = NoErr
    /\ \E row \in 0..(Len(RowsOf("o1")) - 1) :
          /\ query' = [op |-> "data", m |-> ModelOrder[1], valid |-> TRUE, row |-> row,
                       role |-> DisplayRole, v |-> RowsOf("o1")[row + 1],
                       result |-> data(models[ModelOrder[1]], TRUE, row, DisplayRole,
                                       cls, RowsOf("o1"))]
          /\ pyerr' = ItemToVariant_err(RowsOf("o1")[row + 1])
    /\ UNCHANGED <<conv, cls, wrapped, plist, bound, pyobj, models, bridgeMap,
                   typeModelMap, call, reg>>

NextInt == IntForward \/ IntData

SpecInt == InitInt /\ [][NextInt]_vars

\* q is the 32-bit integer that narrowing the int v gives.
IsNarrowed(q, v) ==
    /\ q.type = "Int"
    /\ v.t = "int" => q.i = NarrowToInt(AsLong(v))

\* C35: for every Python int n, pyObject2VariantOpt(n) and the adapter's
\* data() conversion both give the 32-bit integer obtained by narrowing n,
\* never an error, a pending Python error or another representation.
C35_IntNarrowed ==
    /\ pyerr = NoErr
    /\ conv.stage = "forward" => conv.opt.has /\ IsNarrowed(conv.opt.val, conv.v)
    /\ query.op = "data" => IsNarrowed(query.result, query.v)

\* What holds instead: ints within the range of a C long are narrowed by
\* both conversions and leave no error pending.
IntWithinLongNarrowed ==
    /\ (conv.stage = "forward" /\ conv.v.t = "int")
          => conv.opt.has /\ IsNarrowed(conv.opt.val, conv.v)
    /\ (query.op = "data" /\ query.v.t = "int")
          => IsNarrowed(query.result, query.v) /\ pyerr = NoErr

(***************************************************************************)
(* Specification SpecWrap: the references registerMethodsFromType takes    *)
(* and releases while it unwraps one callable of the type.  The callable   *)
(* is a chain w0 -> w1 -> ... -> wd: every wj before the last exposes      *)
(* __wrapped__ (and no __code__) and holds one reference to w(j+1); the    *)
(* last is a function with __code__, or a callable with neither attribute. *)
(* A reference count of 0 is a deallocated object.                         *)
(***************************************************************************)
MaxWrap == 3     \* most pass-through wrappers around one callable

RECURSIVE Py_XDECREF(_, _)
\* Py_XDECREF(wj): at 0 the object is deallocated and releases the reference
\* it holds to the object it wraps.  (On a deallocated object nothing is
\* left to count.)
Py_XDECREF(refs, j) ==
    IF refs[j] = 0 THEN refs
    ELSE LET r == [refs EXCEPT ![j] = @ - 1]
         IN IF r[j] = 0 /\ (j + 1) \in DOMAIN r THEN Py_XDECREF(r, j + 1) ELSE r

\* PyObject_GetAttrString returns a new reference.
Py_NewRef(refs, j) == [refs EXCEPT ![j] = @ + 1]

InitWrap ==
    /\ RestInit
    /\ conv = IdleConv
    /\ \E d \in 0..MaxWrap, code \in BOOLEAN :
       \E base \in [0..d -> 1..2] :
          reg = [stage |-> "start", depth |-> d, code |-> code, base |-> base,
                 refs |-> base, funcObj |-> 0, codeObj |-> FALSE, freedUse |-> FALSE]

\* `value` takes the callable from the type; funcObj borrows value's
\* reference.
UnwrapGet ==
    /\ reg.stage = "start"
    /\ reg' = [reg EXCEPT !.stage = "loop", !.refs = Py_NewRef(reg.refs, 0),
                          !.funcObj = 0]
    /\ UNCHANGED <<conv, cls, wrapped, bound, pyobj, models, bridgeMap, typeModelMap,
                   call, query, pyerr, plist>>

\* One pass of `while (funcObj && !HasAttr(__code__) && HasAttr(__wrapped__))`:
\* `wrapped` takes a reference to the wrapped object, funcObj is released,
\* funcObj becomes the wrapped object, `wrapped` releases its reference.
\* Testing the attributes of a deallocated funcObj is undefined: the pass
\* runs as if the object were intact, or the process stops.
UnwrapStep ==
    /\ reg.stage = "loop"
    /\ reg.funcObj < reg.depth
    /\ LET j == reg.funcObj
           taken == Py_NewRef(reg.refs, j + 1)
           released == Py_XDECREF(taken, j)
           after == Py_XDECREF(released, j + 1)
       IN \E intact \in IF reg.refs[j] = 0 THEN BOOLEAN ELSE {TRUE} :
             reg' = IF intact
                    THEN [reg EXCEPT !.refs = after, !.funcObj = j + 1,
                                     !.freedUse = @ \/ reg.refs[j] = 0]
                    ELSE [reg EXCEPT !.stage = "crashed", !.freedUse = TRUE]
    /\ UNCHANGED <<conv, cls, wrapped, bound, pyobj, models, bridgeMap, typeModelMap,
                   call, query, pyerr, plist>>

\* The loop is left at the object without __wrapped__; its __code__, when
\* it has one, is taken into codeObj and released with it; `value` releases
\* its reference at the end of the iteration over dir(type).
UnwrapFinish ==
    /\ reg.stage = "loop"
    /\ reg.funcObj = reg.depth
    /\ \E intact \in IF reg.refs[reg.funcObj] = 0 THEN BOOLEAN ELSE {TRUE} :
          reg' = IF intact
                 THEN [reg EXCEPT !.stage = "done", !.codeObj = reg.code,
                                  !.refs = Py_XDECREF(reg.refs, 0),
                                  !.freedUse = @ \/ reg.refs[reg.funcObj] = 0
                                                 \/ reg.refs[0] = 0]
                 ELSE [reg EXCEPT !.stage = "crashed", !.freedUse = TRUE]
    /\ UNCHANGED <<conv, cls, wrapped, bound, pyobj, models, bridgeMap, typeModelMap,
                   call, query, pyerr, plist>>

NextWrap == UnwrapGet \/ UnwrapStep \/ UnwrapFinish

SpecWrap == InitWrap /\ [][NextWrap]_vars

\* C39: introspecting a callable is reference-neutral, also for one wrapped
\* in pass-through wrappers that expose __wrapped__ but no __code__: every
\* reference taken while unwrapping is released exactly once and no
\* borrowed one is, so once the callable is introspected every object has
\* the reference count it had before, and none was used after its release.
C39_ReferenceNeutral ==
    /\ reg.stage \in {"done", "crashed"} => reg.refs = reg.base
    /\ ~reg.freedUse

\* What holds instead: a callable that is not wrapped is introspected
\* without changing a reference count.
UnwrappedCallableNeutral ==
    (reg.stage = "done" /\ reg.depth = 0) => reg.refs = reg.base /\ ~reg.freedUse

====
